---- MODULE Spec2Model ----
(***************************************************************************)
(* Agent OS: the agent runtime (engine.py), the capability store           *)
(* (capabilities.py, models.py), the tool registry (registry.py), the      *)
(* message bus (messaging.py) and the sandbox (sandbox.py).                *)
(*                                                                         *)
(* Strings are sequences of symbols: "file:*:read" is                      *)
(* <<"file", ":", "*", ":", "read">>.  split, startswith and endswith are  *)
(* computed on these sequences as Python computes them on characters.      *)
(***************************************************************************)
EXTENDS Integers, Sequences, FiniteSets, TLC

VARIABLES
    agents,       \* AgentRuntime._agents: id -> Agent
    agent_tasks,  \* AgentRuntime._agent_tasks: the ids that have a task entry
    pc,           \* where the coroutine of run(id) is suspended
    todo,         \* the tool_use blocks of the current response not yet recorded
    events,       \* the events the runtime emitted, per agent_id, in order
    caps,         \* CapabilityManager._agent_capabilities: id -> list of Capability
    tools,        \* ToolRegistry._tools: name -> required_capabilities
    impl_calls,   \* the invocations of tool implementations, in order
    queues,       \* MessageBus._queues: id -> mailbox
    subs,         \* MessageBus._event_subscriptions: event type -> list of agent ids
    last,         \* the most recent call of a public operation and its outcome
    llm_calls,    \* the calls of messages.create made for each agent
    messages,     \* the conversation of _run_agent_loop, per agent
    tool_results, \* the tool_results list of the current iteration, per agent
    pending,      \* MessageBus._pending_requests: message id -> PendingRequest
    history,      \* MessageBus._history; a message's id is its position
    received,     \* the ids of the messages Receive returned, per agent, in order
    bcast,        \* the broadcast call in progress
    handled,      \* the handler invocations of that broadcast call, in order
    active,       \* SandboxManager._active_sandboxes: the execution ids that have an entry
    scratch,      \* the scratch directories that exist, by execution id
    children,     \* the child processes execute_command started, by execution id
    executions    \* the calls of execute_command: where each stands, and its result

\* the locals of the agent loop
loopVars == <<llm_calls, messages, tool_results>>

\* the request table, the history and what the receivers hold
busVars == <<pending, history, received>>

\* the broadcast in progress
pubVars == <<bcast, handled>>

\* the sandbox and the processes and directories it created
sandboxVars == <<active, scratch, children, executions>>

vars == <<agents, agent_tasks, pc, todo, events, caps, tools, impl_calls,
          queues, subs, last, llm_calls, messages, tool_results, pending,
          history, received, bcast, handled, active, scratch, children,
          executions>>

----------------------------------------------------------------------------
(* Bounds *)

MaxPauses == 1      \* effective Pause calls per agent
MaxGrants == 2      \* length of one agent's grant list
MaxImplCalls == 1   \* implementation invocations recorded by direct Execute calls
MaxMsgs == 3        \* messages the bus creates
MaxSubs == 3        \* subscriptions the bus holds
MaxChanges == 1     \* subscription changes while one broadcast is in progress
MaxRuns == 2        \* calls of execute_command
MaxPathLen == 4     \* symbols of a path given to check_path_allowed
MaxCapLen == 5      \* symbols of a string given to Capability.parse
MaxCmdLen == 4      \* words of a command given to check_command_safe
MaxParamCalls == 2  \* implementation invocations recorded by Execute calls with parameters

\* the agent ids callers use; Spawn creates agents under the ids of SpawnIds only,
\* so that the others stay ids of no agent
Ids == {"a1", "a2"}
SpawnIds == {"a1"}

----------------------------------------------------------------------------
(* Strings *)

Star == <<"*">>

RECURSIVE SplitFrom(_, _, _)
\* str.split(sep): cur is the segment being read
SplitFrom(s, sep, cur) ==
    IF s = <<>> THEN <<cur>>
    ELSE IF Head(s) = sep THEN <<cur>> \o SplitFrom(Tail(s), sep, <<>>)
    ELSE SplitFrom(Tail(s), sep, Append(cur, Head(s)))

Split(s, sep) == SplitFrom(s, sep, <<>>)

RECURSIVE Join(_, _)
\* sep.join(parts)
Join(parts, sep) ==
    IF parts = <<>> THEN <<>>
    ELSE IF Len(parts) = 1 THEN parts[1]
    ELSE parts[1] \o <<sep>> \o Join(Tail(parts), sep)

StartsWith(s, p) == Len(p) <= Len(s) /\ SubSeq(s, 1, Len(p)) = p

EndsWithStar(s) == Len(s) > 0 /\ s[Len(s)] = "*"

InList(x, l) == \E i \in 1..Len(l) : l[i] = x

\* the capability strings the configurations and the tool schemas use
FileRead == <<"file", ":", "*", ":", "read">>
FileWrite == <<"file", ":", "*", ":", "write">>
HttpRequest == <<"http", ":", "*", ":", "request">>
ShellExecute == <<"shell", ":", "*", ":", "execute">>
FileTmpAll == <<"file", ":", "/tmp/", "*">>
ShellOnly == <<"shell">>
FileTmpRead == <<"file", ":", "/tmp/", "*", ":", "read">>

----------------------------------------------------------------------------
(* Capability (models.py) *)

ParseOk(capability_string) == Len(Split(capability_string, ":")) >= 2

Parse(capability_string) ==
    LET parts == Split(capability_string, ":")
    IN [resource |-> parts[1],
        path |-> IF Len(parts) > 1 THEN parts[2] ELSE Star,
        actions |-> IF Len(parts) > 2 THEN Split(parts[3], ",") ELSE <<Star>>]

CapStr(cap) == cap.resource \o <<":">> \o cap.path \o <<":">> \o Join(cap.actions, ",")

MatchesNoPrefix(cap, resource, path, action) ==
    /\ cap.resource = Star \/ cap.resource = resource
    /\ cap.path = Star \/ EndsWithStar(cap.path) \/ cap.path = path
    /\ InList(Star, cap.actions) \/ InList(action, cap.actions)

Matches(cap, resource, path, action) ==
    /\ ~(cap.resource # Star /\ cap.resource # resource)
    /\ cap.path # Star =>
          IF EndsWithStar(cap.path)
          THEN StartsWith(path, SubSeq(cap.path, 1, Len(cap.path) - 1))
          ELSE cap.path = path
    /\ ~(~InList(Star, cap.actions) /\ ~InList(action, cap.actions))

----------------------------------------------------------------------------
(* CapabilityManager (capabilities.py) *)

CapsOf(store, agent_id) == IF agent_id \in DOMAIN store THEN store[agent_id] ELSE <<>>

RECURSIVE CheckList(_, _, _, _)
\* the for loop of check: the first capability that matches, else the denial
CheckList(l, resource, path, action) ==
    IF l = <<>>
    THEN [allowed |-> FALSE, capability |-> <<>>,
          reason |-> <<"No capability grants">> \o resource \o <<":">> \o path
                     \o <<":">> \o action]
    ELSE IF Matches(Head(l), resource, path, action)
    THEN [allowed |-> TRUE, capability |-> <<Head(l)>>,
          reason |-> <<"Granted by capability">> \o CapStr(Head(l))]
    ELSE CheckList(Tail(l), resource, path, action)

Check(store, agent_id, resource, path, action) ==
    CheckList(CapsOf(store, agent_id), resource, path, action)

GrantTo(store, agent_id, capability) ==
    IF agent_id \in DOMAIN store
    THEN [store EXCEPT ![agent_id] = Append(@, capability)]
    ELSE [x \in DOMAIN store \cup {agent_id} |->
             IF x = agent_id THEN <<capability>> ELSE store[x]]

RECURSIVE GrantMany(_, _, _)
\* grant_many stops at the first string parse rejects; the grants made before stay
GrantMany(store, agent_id, capability_strings) ==
    IF capability_strings = <<>> THEN [ok |-> TRUE, store |-> store]
    ELSE IF ~ParseOk(Head(capability_strings)) THEN [ok |-> FALSE, store |-> store]
    ELSE GrantMany(GrantTo(store, agent_id, Parse(Head(capability_strings))),
                   agent_id, Tail(capability_strings))

RevokeAllKeep(store, agent_id) ==
    IF agent_id \in DOMAIN store THEN [store EXCEPT ![agent_id] = SubSeq(@, 1, 1)]
    ELSE store

RevokeAllEvery(store, agent_id) == <<>>

\* del self._agent_capabilities[agent_id]
RevokeAllOf(store, agent_id) == [x \in DOMAIN store \ {agent_id} |-> store[x]]

DefaultMinimal == <<>>

\* get_default_capabilities("basic")
DefaultBasic == <<FileRead, HttpRequest>>

----------------------------------------------------------------------------
(* ToolRegistry (registry.py) *)

BuiltinTools ==
    [n \in {"shell.execute", "file.read", "file.write", "file.list",
            "http.request", "http.get"} |->
        CASE n = "shell.execute" -> <<ShellExecute>>
          [] n = "file.read" -> <<FileRead>>
          [] n = "file.write" -> <<FileWrite>>
          [] n = "file.list" -> <<FileRead>>
          [] n = "http.request" -> <<HttpRequest>>
          [] OTHER -> <<HttpRequest>>]

RegisterTool(reg, name, required_capabilities) ==
    [n \in DOMAIN reg \cup {name} |->
        IF n = name THEN required_capabilities ELSE reg[n]]

\* the three values execute reads from one declared capability string
Required(cap_string) ==
    LET parts == Split(cap_string, ":")
    IN [resource |-> parts[1],
        path |-> IF Len(parts) > 1 THEN parts[2] ELSE Star,
        action |-> IF Len(parts) > 2 THEN parts[3] ELSE Star]

CheckRequiredHead(store, agent_id, cap_strings) ==
    IF cap_strings = <<>> THEN <<>>
    ELSE LET r == Required(Head(cap_strings))
             check == Check(store, agent_id, r.resource, r.path, r.action)
         IN IF ~check.allowed THEN <<check.reason>> ELSE <<>>

RECURSIVE CheckRequired(_, _, _)
\* the for loop of execute over schema.required_capabilities:
\* <<>> when every check passes, else the reason of the first denial
CheckRequired(store, agent_id, cap_strings) ==
    IF cap_strings = <<>> THEN <<>>
    ELSE LET r == Required(Head(cap_strings))
             check == Check(store, agent_id, r.resource, r.path, r.action)
         IN IF ~check.allowed THEN <<check.reason>>
            ELSE CheckRequired(store, agent_id, Tail(cap_strings))

ToolResult(tool_name, status, error) ==
    [tool_name |-> tool_name, status |-> status, error |-> error]

\* execute up to the await of the implementation: a result, or the decision to invoke
ExecuteSync(reg, store, agent_id, tool_name) ==
    IF tool_name \notin DOMAIN reg
    THEN [invoke |-> FALSE,
          result |-> ToolResult(tool_name, "error", <<"Unknown tool", tool_name>>)]
    ELSE LET denial == CheckRequired(store, agent_id, reg[tool_name])
         IN IF denial # <<>>
            THEN [invoke |-> FALSE,
                  result |-> ToolResult(tool_name, "denied",
                                        <<"Permission denied">> \o denial[1])]
            ELSE [invoke |-> TRUE, result |-> ToolResult(tool_name, "success", <<>>)]

\* what the implementation does once awaited
Outcomes == {"success", "timeout", "error"}

\* what happens inside an implementation: shell_execute sees its process exit,
\* fail to start or exceed the time limit; any other implementation returns,
\* raises TimeoutError or raises something else
ImplEvents(tool_name) ==
    IF tool_name = "shell.execute" THEN {"exit", "spawn_error", "time_limit"}
    ELSE Outcomes

\* shell_execute: the outer except clause turns every exception raised in its
\* body, the TimeoutError of the time limit included, into a RuntimeError
ShellExecuteImpl(event) == IF event = "exit" THEN "success" ELSE "error"

\* what the implementation hands to execute
Implementation(tool_name, event) ==
    IF tool_name = "shell.execute" THEN ShellExecuteImpl(event) ELSE event

ExecuteResultFlat(tool_name, outcome) ==
    CASE outcome = "success" -> ToolResult(tool_name, "success", <<>>)
      [] OTHER -> ToolResult(tool_name, "error", <<"failure message">>)

\* execute after the await: the implementation returned or raised
ExecuteResult(tool_name, outcome) ==
    CASE outcome = "success" -> ToolResult(tool_name, "success", <<>>)
      [] outcome = "timeout" -> ToolResult(tool_name, "timeout", <<"Tool execution timed out">>)
      [] OTHER -> ToolResult(tool_name, "error", <<"failure message">>)

----------------------------------------------------------------------------
(* MessageBus (messaging.py) *)

EventTypes == {"topic", "*"}

RegisterAgent(q, agent_id) ==
    [x \in DOMAIN q \cup {agent_id} |-> IF x = agent_id THEN <<>> ELSE q[x]]

RECURSIVE Without(_, _)
\* the list without the entries of agent_id
Without(l, agent_id) ==
    IF l = <<>> THEN <<>>
    ELSE IF Head(l) = agent_id THEN Without(Tail(l), agent_id)
    ELSE <<Head(l)>> \o Without(Tail(l), agent_id)

UnregisterQueueKeep(q, agent_id) == q

UnregisterQueue(q, agent_id) == [x \in DOMAIN q \ {agent_id} |-> q[x]]

\* Event
Event(type, agent_id, data) == [type |-> type, agent_id |-> agent_id, data |-> data]

\* no broadcast was called yet
NoBroadcast ==
    [phase |-> "idle", event |-> Event("", "", ""), i |-> 0, shared |-> FALSE,
     snap |-> <<>>, changes |-> 0]

WildcardNone(s) == <<>>

\* _event_subscriptions.get("*", [])
Wildcard(s) == s["*"]

\* _event_subscriptions.get(event_type, [])
Handlers(s, event_type) ==
    IF event_type = "*" THEN Wildcard(s)
    ELSE IF event_type \in DOMAIN s THEN s[event_type] ELSE <<>>

\* the event type whose list the broadcast b iterates
Iterated(b) == IF b.phase = "exact" THEN b.event.type ELSE "*"

\* the list the loop of b iterates: the list object of the table while the
\* table still holds it, else the object as it was when the table replaced it
Current(b, s) == IF b.shared THEN Handlers(s, Iterated(b)) ELSE b.snap

\* broadcast returns the event
Returned(b) == [b EXCEPT !.phase = "returned", !.i = 0, !.shared = FALSE, !.snap = <<>>]

\* the second loop of broadcast, over the wildcard subscribers
Wild(b, s) ==
    IF Wildcard(s) = <<>> THEN Returned(b)
    ELSE [b EXCEPT !.phase = "wildcard", !.i = 1, !.shared = TRUE, !.snap = <<>>]

\* the first loop of broadcast, over the subscribers of the event's type
Enter(event, s) ==
    LET b == [phase |-> "exact", event |-> event, i |-> 1, shared |-> TRUE,
              snap |-> <<>>, changes |-> 0]
    IN IF Handlers(s, event.type) = <<>> THEN Wild(b, s) ELSE b

\* the loop of b goes on after a handler returned or raised
Advance(b, s) ==
    LET n == [b EXCEPT !.i = @ + 1]
    IN IF n.i <= Len(Current(n, s)) THEN n
       ELSE IF b.phase = "exact" THEN Wild(n, s)
       ELSE Returned(n)

\* await handler(event) for the entry the loop of b stands at
Invocation(b, s) ==
    [agent_id |-> Current(b, s)[b.i], event |-> b.event, outcome |-> "running"]

HandlerOutcomes == {"ok", "raise"}

ContinuesOk(outcome) == outcome = "ok"

\* try: await handler(event) / except Exception: the loop goes on
Continues(outcome) == outcome \in {"ok", "raise"}

\* unsubscribe and unregister_agent assign new lists to the event types in
\* types; a loop over one of the old lists keeps the old list
Detach(b, s, types) ==
    IF b.shared /\ Iterated(b) \in types
    THEN [b EXCEPT !.shared = FALSE, !.snap = Handlers(s, Iterated(b))]
    ELSE b

\* the subscriptions change while b is in progress
Unsettle(b) ==
    IF b.phase \in {"exact", "wildcard"} THEN [b EXCEPT !.changes = @ + 1] ELSE b

\* no more than MaxChanges changes happen during one broadcast
Changeable(b) == b.phase \in {"exact", "wildcard"} => b.changes < MaxChanges

UnregisterSubsTopic(s, agent_id) == [s EXCEPT !["topic"] = Without(@, agent_id)]

UnregisterSubs(s, agent_id) == [t \in DOMAIN s |-> Without(s[t], agent_id)]

----------------------------------------------------------------------------
(* AgentRuntime (engine.py) *)

Terminal == {"completed", "failed", "terminated"}

RunnableAgain == {"pending", "completed"}

RunnableRunning == {"pending", "running"}

\* the states run accepts
Runnable == {"pending"}

TerminableAlso == {"running", "paused", "pending", "completed"}

\* the states terminate acts on
Terminable == {"running", "paused", "pending"}

ConfigCaps == {<<>>, <<ShellExecute>>, <<FileTmpAll, ShellOnly>>}

\* the max_iterations of the configurations
IterLimits == {1, 2}

Configs == [capabilities : ConfigCaps, max_iterations : IterLimits]

\* the lists of tool_use blocks a response may hold
UseSeqs == {<<"file.read">>, <<"web.search", "file.read">>}

\* what messages.create does: it raises, or returns content without tool_use
\* blocks (with or without a text block), or content with tool_use blocks
Responses ==
    {[kind |-> "raise", uses |-> <<>>], [kind |-> "text", uses |-> <<>>],
     [kind |-> "empty", uses |-> <<>>]}
    \cup {[kind |-> "tools", uses |-> u] : u \in UseSeqs}

NewAgent(config) ==
    [state |-> "pending", iterations |-> 0, tool_calls |-> <<>>,
     last_error |-> "none", result |-> "none",
     max_iterations |-> config.max_iterations]

\* what a caller sees of a call: the id it passed and how the call ended
Called(agent_id, res) == [agent |-> agent_id, res |-> res]

Emit(agent_id, type) == events' = [events EXCEPT ![agent_id] = Append(@, type)]

Count(l, x) == Cardinality({i \in 1..Len(l) : l[i] = x})

Init ==
    /\ agents = <<>>
    /\ agent_tasks = {}
    /\ pc = [a \in Ids |-> "none"]
    /\ todo = [a \in Ids |-> <<>>]
    /\ events = [a \in Ids |-> <<>>]
    /\ caps = <<>>
    /\ tools = BuiltinTools
    /\ impl_calls = [a \in Ids |-> <<>>]
    /\ queues = <<>>
    /\ subs = [t \in EventTypes |-> <<>>]
    /\ last = Called("none", "ok")
    /\ llm_calls = [a \in Ids |-> 0]
    /\ messages = [a \in Ids |-> <<>>]
    /\ tool_results = [a \in Ids |-> <<>>]
    /\ pending = <<>>
    /\ history = <<>>
    /\ received = [a \in Ids |-> <<>>]
    /\ bcast = NoBroadcast
    /\ handled = <<>>
    /\ active = {}
    /\ scratch = {}
    /\ children = <<>>
    /\ executions = <<>>

\* spawn: the id is fresh; grant_many raises on a string parse rejects
Spawn(id, config) ==
    /\ id \notin DOMAIN agents \cup DOMAIN caps \cup DOMAIN queues
    /\ LET granted == GrantMany(caps, id,
                          IF config.capabilities # <<>> THEN config.capabilities
                          ELSE DefaultBasic)
       IN /\ caps' = granted.store
          /\ IF granted.ok
             THEN /\ queues' = RegisterAgent(queues, id)
                  /\ agents' = [x \in DOMAIN agents \cup {id} |->
                                   IF x = id THEN NewAgent(config) ELSE agents[x]]
                  /\ Emit(id, "agent.spawned")
                  /\ last' = Called(id, "ok")
             ELSE /\ UNCHANGED <<queues, agents, events>>
                  /\ last' = Called(id, "error")
    /\ UNCHANGED <<agent_tasks, pc, todo, tools, impl_calls, subs, loopVars, busVars, pubVars, sandboxVars>>

\* run up to the await inside the emit of agent.started
Run(a) ==
    /\ IF a \in DOMAIN agents /\ agents[a].state \in Runnable
       THEN /\ agents' = [agents EXCEPT ![a].state = "running"]
            /\ Emit(a, "agent.started")
            /\ pc' = [pc EXCEPT ![a] = "loop"]
            /\ messages' = [messages EXCEPT ![a] = << <<"goal">> >>]
            /\ last' = Called(a, "started")
       ELSE /\ last' = Called(a, "error")
            /\ UNCHANGED <<agents, events, pc, messages>>
    /\ UNCHANGED <<agent_tasks, todo, caps, tools, impl_calls, queues, subs,
                   llm_calls, tool_results, busVars, pubVars, sandboxVars>>

AfterLoopSilent(a, ag, failed) ==
    /\ agents' = [agents EXCEPT ![a] =
                     IF failed THEN [ag EXCEPT !.state = "failed"]
                     ELSE IF ag.state = "running"
                     THEN [ag EXCEPT !.state = "completed"]
                     ELSE ag]
    /\ Emit(a, "agent.completed")
    /\ pc' = [pc EXCEPT ![a] = "completing"]

\* run after _run_agent_loop returned (failed = FALSE) or raised (failed = TRUE),
\* up to the await inside the emit of agent.completed
AfterLoop(a, ag, failed) ==
    /\ agents' = [agents EXCEPT ![a] =
                     IF failed
                     THEN [ag EXCEPT !.state = "failed", !.last_error = "error"]
                     ELSE IF ag.state = "running"
                     THEN [ag EXCEPT !.state = "completed"]
                     ELSE ag]
    /\ Emit(a, "agent.completed")
    /\ pc' = [pc EXCEPT ![a] = "completing"]

ContentNoError(result) == <<"output">>

\* the content of the tool_result block built from a ToolResult
Content(result) ==
    IF result.status = "success" THEN <<"output">> ELSE <<"Error">> \o result.error

\* tool_results once the block of the tool call recorded last is appended to it
Fed(a) ==
    Append(tool_results[a],
           Content(agents[a].tool_calls[Len(agents[a].tool_calls)].result))

AtLimitLate(ag) == ag.iterations > ag.max_iterations

\* the iteration limit test
AtLimit(ag) == ag.iterations >= ag.max_iterations

\* the end of the for loop when the last tool_use was recorded (end_tools), then
\* the while test and the start of an iteration, up to the await of messages.create
LoopHead(a) ==
    /\ pc[a] \in {"loop", "end_tools"}
    /\ IF pc[a] = "end_tools"
       THEN /\ tool_results' = [tool_results EXCEPT ![a] = Fed(a)]
            /\ messages' = [messages EXCEPT ![a] = Append(@, Fed(a))]
       ELSE UNCHANGED <<tool_results, messages>>
    /\ LET ag == agents[a]
       IN IF ag.state # "running"
          THEN /\ AfterLoop(a, ag, FALSE)
               /\ UNCHANGED llm_calls
          ELSE IF AtLimit(ag)
          THEN /\ AfterLoop(a, [ag EXCEPT !.result = "Reached maximum iterations"], FALSE)
               /\ UNCHANGED llm_calls
          ELSE /\ agents' = [agents EXCEPT ![a].iterations = @ + 1]
               /\ llm_calls' = [llm_calls EXCEPT ![a] = @ + 1]
               /\ pc' = [pc EXCEPT ![a] = "await_llm"]
               /\ UNCHANGED events
    /\ UNCHANGED <<agent_tasks, todo, caps, tools, impl_calls, queues, subs, last,
                   busVars, pubVars, sandboxVars>>

\* the body of the for loop after execute returned result, up to the await inside
\* the emit of tool.executed; uses starts with the tool_use that was executed
Record(a, uses, result) ==
    /\ agents' = [agents EXCEPT ![a].tool_calls =
                     Append(@, [tool |-> Head(uses), result |-> result])]
    /\ Emit(a, "tool.executed")
    /\ todo' = [todo EXCEPT ![a] = Tail(uses)]
    /\ pc' = [pc EXCEPT ![a] = IF Tail(uses) = <<>> THEN "end_tools" ELSE "next_tool"]

\* the for loop at the tool_use Head(uses): execute either returns at once
\* (unknown tool, denial) or awaits the implementation
BeginTool(a, uses) ==
    LET sync == ExecuteSync(tools, caps, a, Head(uses))
    IN IF sync.invoke
       THEN /\ impl_calls' = [impl_calls EXCEPT ![a] = Append(@, Head(uses))]
            /\ todo' = [todo EXCEPT ![a] = uses]
            /\ pc' = [pc EXCEPT ![a] = "await_tool"]
            /\ UNCHANGED <<agents, events>>
       ELSE /\ Record(a, uses, sync.result)
            /\ UNCHANGED impl_calls

\* messages.create returns or raises
LLMReturn(a) ==
    /\ pc[a] = "await_llm"
    /\ \E response \in Responses :
          CASE response.kind = "raise" ->
                  /\ AfterLoop(a, agents[a], TRUE)
                  /\ UNCHANGED <<todo, impl_calls, messages, tool_results>>
            [] response.kind = "text" ->
                  /\ AfterLoop(a, [agents[a] EXCEPT !.result = "text"], FALSE)
                  /\ messages' = [messages EXCEPT ![a] = Append(@, <<"assistant">>)]
                  /\ UNCHANGED <<todo, impl_calls, tool_results>>
            [] response.kind = "empty" ->
                  /\ AfterLoop(a, agents[a], FALSE)
                  /\ messages' = [messages EXCEPT ![a] = Append(@, <<"assistant">>)]
                  /\ UNCHANGED <<todo, impl_calls, tool_results>>
            [] OTHER ->
                  /\ messages' = [messages EXCEPT ![a] = Append(@, <<"assistant">>)]
                  /\ tool_results' = [tool_results EXCEPT ![a] = <<>>]
                  /\ BeginTool(a, response.uses)
    /\ UNCHANGED <<agent_tasks, caps, tools, queues, subs, last, llm_calls, busVars, pubVars, sandboxVars>>

\* the awaited implementation returns or raises
ToolReturn(a) ==
    /\ pc[a] = "await_tool"
    /\ \E event \in ImplEvents(Head(todo[a])) :
          Record(a, todo[a],
                 ExecuteResult(Head(todo[a]), Implementation(Head(todo[a]), event)))
    /\ UNCHANGED <<agent_tasks, caps, tools, impl_calls, queues, subs, last,
                   loopVars, busVars, pubVars, sandboxVars>>

\* the for loop appends the block of the recorded call and goes on to the
\* next tool_use
NextTool(a) ==
    /\ pc[a] = "next_tool"
    /\ tool_results' = [tool_results EXCEPT ![a] = Fed(a)]
    /\ BeginTool(a, todo[a])
    /\ UNCHANGED <<agent_tasks, caps, tools, queues, subs, last, llm_calls,
                   messages, busVars, pubVars, sandboxVars>>

\* run returns the agent
RunReturn(a) ==
    /\ pc[a] = "completing"
    /\ pc' = [pc EXCEPT ![a] = "returned"]
    /\ last' = Called(a, "returned")
    /\ UNCHANGED <<agents, agent_tasks, todo, events, caps, tools, impl_calls,
                   queues, subs, loopVars, busVars, pubVars, sandboxVars>>

Pause(a) ==
    /\ Count(events[a], "agent.paused") < MaxPauses
    /\ IF a \notin DOMAIN agents
       THEN /\ last' = Called(a, "error")
            /\ UNCHANGED <<agents, events>>
       ELSE /\ last' = Called(a, "ok")
            /\ IF agents[a].state = "running"
               THEN /\ agents' = [agents EXCEPT ![a].state = "paused"]
                    /\ Emit(a, "agent.paused")
               ELSE UNCHANGED <<agents, events>>
    /\ UNCHANGED <<agent_tasks, pc, todo, caps, tools, impl_calls, queues, subs,
                   loopVars, busVars, pubVars, sandboxVars>>

ResumeAny(a) ==
    /\ IF a \notin DOMAIN agents
       THEN /\ last' = Called(a, "error")
            /\ UNCHANGED <<agents, events>>
       ELSE /\ last' = Called(a, "ok")
            /\ IF agents[a].state \in {"paused", "pending"}
               THEN /\ agents' = [agents EXCEPT ![a].state = "running"]
                    /\ Emit(a, "agent.resumed")
               ELSE UNCHANGED <<agents, events>>
    /\ UNCHANGED <<agent_tasks, pc, todo, caps, tools, impl_calls, queues, subs,
                   loopVars, busVars, pubVars, sandboxVars>>

Resume(a) ==
    /\ IF a \notin DOMAIN agents
       THEN /\ last' = Called(a, "error")
            /\ UNCHANGED <<agents, events>>
       ELSE /\ last' = Called(a, "ok")
            /\ IF agents[a].state = "paused"
               THEN /\ agents' = [agents EXCEPT ![a].state = "running"]
                    /\ Emit(a, "agent.resumed")
               ELSE UNCHANGED <<agents, events>>
    /\ UNCHANGED <<agent_tasks, pc, todo, caps, tools, impl_calls, queues, subs,
                   loopVars, busVars, pubVars, sandboxVars>>

\* terminate; a cancelled task ends at its await with CancelledError, which
\* run does not catch
Terminate(a) ==
    /\ IF a \notin DOMAIN agents
       THEN /\ last' = Called(a, "error")
            /\ UNCHANGED <<agents, agent_tasks, pc, caps, queues, subs, events>>
       ELSE /\ last' = Called(a, "ok")
            /\ IF agents[a].state \in Terminable
               THEN /\ agents' = [agents EXCEPT ![a].state = "terminated"]
                    /\ pc' = IF a \in agent_tasks
                             THEN [pc EXCEPT ![a] = "cancelled"] ELSE pc
                    /\ agent_tasks' = agent_tasks \ {a}
                    /\ caps' = RevokeAllOf(caps, a)
                    /\ queues' = UnregisterQueue(queues, a)
                    /\ subs' = UnregisterSubs(subs, a)
                    /\ Emit(a, "agent.terminated")
               ELSE UNCHANGED <<agents, agent_tasks, pc, caps, queues, subs, events>>
    /\ UNCHANGED <<todo, tools, impl_calls, loopVars, busVars, pubVars, sandboxVars>>

\* subscribe_to_event
Subscribe(a, event_type) ==
    /\ ~InList(a, subs[event_type])
    /\ subs' = [subs EXCEPT ![event_type] = Append(@, a)]
    /\ last' = Called(a, "ok")
    /\ UNCHANGED <<agents, agent_tasks, pc, todo, events, caps, tools, impl_calls,
                   queues, loopVars, busVars, pubVars, sandboxVars>>

Next ==
    \/ \E id \in SpawnIds, config \in Configs : Spawn(id, config)
    \/ \E a \in Ids : Run(a)
    \/ \E a \in Ids : LoopHead(a)
    \/ \E a \in Ids : LLMReturn(a)
    \/ \E a \in Ids : ToolReturn(a)
    \/ \E a \in Ids : NextTool(a)
    \/ \E a \in Ids : RunReturn(a)
    \/ \E a \in Ids : Pause(a)
    \/ \E a \in Ids : Resume(a)
    \/ \E a \in Ids : Terminate(a)
    \/ \E a \in SpawnIds, event_type \in EventTypes : Subscribe(a, event_type)

Spec == Init /\ [][Next]_vars

\* the scheduler resumes every task that can run, the inference service and the
\* tools return, and a paused agent is resumed
Fairness ==
    \A a \in Ids :
       /\ WF_vars(LoopHead(a))
       /\ WF_vars(LLMReturn(a))
       /\ WF_vars(ToolReturn(a))
       /\ WF_vars(NextTool(a))
       /\ WF_vars(RunReturn(a))
       /\ WF_vars(a \in DOMAIN agents /\ agents[a].state = "paused" /\ Resume(a))

FairSpec == Spec /\ Fairness

----------------------------------------------------------------------------
(* The capability store called directly *)

FileTmpX == <<"file", ":", "/tmp/", "x", ":", "read">>
AnyReadWrite == <<"*", ":", "*", ":", "read", ",", "write">>

\* the capabilities callers grant and revoke
CapUniverse == {Parse(c) : c \in {FileTmpAll, FileTmpX, ShellExecute, AnyReadWrite}}

\* the triples callers check
Requests ==
    {[resource |-> r, path |-> p, action |-> x] :
        r \in {<<"file">>, <<"shell">>},
        p \in {<<"/tmp/", "x">>, <<"/tmp/">>, <<"/etc/", "x">>},
        x \in {<<"read">>, <<"execute">>}}

NoneAllowed(store, a) ==
    \A q \in Requests : ~Check(store, a, q.resource, q.path, q.action).allowed

\* grant
Grant(a, capability) ==
    /\ Len(CapsOf(caps, a)) < MaxGrants
    /\ caps' = GrantTo(caps, a, capability)
    /\ last' = Called(a, "granted")
    /\ UNCHANGED <<agents, agent_tasks, pc, todo, events, tools, impl_calls,
                   queues, subs, loopVars, busVars, pubVars, sandboxVars>>

RECURSIVE RemoveFirst(_, _)
\* the list without the first capability whose string is cap_str
RemoveFirst(l, cap_str) ==
    IF l = <<>> THEN <<>>
    ELSE IF CapStr(Head(l)) = cap_str THEN Tail(l)
    ELSE <<Head(l)>> \o RemoveFirst(Tail(l), cap_str)

\* revoke
Revoke(a, capability) ==
    /\ IF a \in DOMAIN caps /\ RemoveFirst(caps[a], CapStr(capability)) # caps[a]
       THEN /\ caps' = [caps EXCEPT ![a] = RemoveFirst(@, CapStr(capability))]
            /\ last' = Called(a, "true")
       ELSE /\ UNCHANGED caps
            /\ last' = Called(a, "false")
    /\ UNCHANGED <<agents, agent_tasks, pc, todo, events, tools, impl_calls,
                   queues, subs, loopVars, busVars, pubVars, sandboxVars>>

\* revoke_all
RevokeAll(a) ==
    /\ caps' = RevokeAllOf(caps, a)
    /\ last' = Called(a, "revoked_all")
    /\ UNCHANGED <<agents, agent_tasks, pc, todo, events, tools, impl_calls,
                   queues, subs, loopVars, busVars, pubVars, sandboxVars>>

\* check
CheckCall(a, q) ==
    /\ last' = Called(a,
                      IF Check(caps, a, q.resource, q.path, q.action).allowed
                      THEN "allowed" ELSE "denied")
    /\ UNCHANGED <<agents, agent_tasks, pc, todo, events, caps, tools, impl_calls,
                   queues, subs, loopVars, busVars, pubVars, sandboxVars>>

NextCaps ==
    \/ \E a \in Ids, capability \in CapUniverse : Grant(a, capability)
    \/ \E a \in Ids, capability \in CapUniverse : Revoke(a, capability)
    \/ \E a \in Ids : RevokeAll(a)
    \/ \E a \in Ids, q \in Requests : CheckCall(a, q)

SpecCaps == Init /\ [][NextCaps]_vars

----------------------------------------------------------------------------
(* The tool registry called directly *)

\* the schemas callers register besides the built-in ones
Schemas == [probe |-> <<FileRead, ShellExecute>>, noop |-> <<>>]

\* the tool names callers execute
ToolNames == {"file.read", "probe", "noop", "web.search", "shell.execute"}

\* register
Register(name) ==
    /\ name \notin DOMAIN tools
    /\ tools' = RegisterTool(tools, name, Schemas[name])
    /\ last' = Called(name, "ok")
    /\ UNCHANGED <<agents, agent_tasks, pc, todo, events, caps, impl_calls,
                   queues, subs, loopVars, busVars, pubVars, sandboxVars>>

\* grant_from_string
GrantFromString(a, capability_string) ==
    /\ Len(CapsOf(caps, a)) < MaxGrants
    /\ IF ParseOk(capability_string)
       THEN /\ caps' = GrantTo(caps, a, Parse(capability_string))
            /\ last' = Called(a, "ok")
       ELSE /\ UNCHANGED caps
            /\ last' = Called(a, "error")
    /\ UNCHANGED <<agents, agent_tasks, pc, todo, events, tools, impl_calls,
                   queues, subs, loopVars, busVars, pubVars, sandboxVars>>

\* execute, from the call to the result
Execute(a, tool_name) ==
    /\ Len(impl_calls[a]) < MaxImplCalls
    /\ LET sync == ExecuteSync(tools, caps, a, tool_name)
       IN IF sync.invoke
          THEN /\ impl_calls' = [impl_calls EXCEPT ![a] = Append(@, tool_name)]
               /\ \E event \in ImplEvents(tool_name) :
                     last' = [agent |-> a, res |-> "result",
                              result |-> ExecuteResult(tool_name,
                                            Implementation(tool_name, event)),
                              event |-> event,
                              impl |-> Implementation(tool_name, event)]
          ELSE /\ UNCHANGED impl_calls
               /\ last' = [agent |-> a, res |-> "result",
                           result |-> sync.result,
                           event |-> "none", impl |-> "none"]
    /\ UNCHANGED <<agents, agent_tasks, pc, todo, events, caps, tools, queues, subs,
                   loopVars, busVars, pubVars, sandboxVars>>

NextTools ==
    \/ \E name \in DOMAIN Schemas : Register(name)
    \/ \E a \in Ids, c \in {FileRead, ShellExecute, ShellOnly} : GrantFromString(a, c)
    \/ \E a \in Ids : RevokeAll(a)
    \/ \E a \in SpawnIds, tool_name \in ToolNames : Execute(a, tool_name)

SpecTools == Init /\ [][NextTools]_vars

----------------------------------------------------------------------------
(* The message bus called directly *)

Payloads == {"p", "q"}

\* Send and Request address a2, and a1 makes the requests; Respond addresses
\* whoever sent the original message
Recipients == {"a2"}
Requesters == {"a1"}

\* Message; id is the position in the history, reply_to is 0 when absent
Message(type, sender_id, recipient_id, payload, reply_to) ==
    [id |-> Len(history) + 1, type |-> type, sender_id |-> sender_id,
     recipient_id |-> recipient_id, payload |-> payload, reply_to |-> reply_to]

PutFront(q, m) ==
    IF m.recipient_id \in DOMAIN q
    THEN [q EXCEPT ![m.recipient_id] = <<m>> \o @]
    ELSE q

\* the put on the recipient's queue, when the recipient has one
Put(q, m) ==
    IF m.recipient_id \in DOMAIN q
    THEN [q EXCEPT ![m.recipient_id] = Append(@, m)]
    ELSE q

\* PendingRequest: the future is waiting, holds a result, was cancelled by
\* wait_for at the deadline, or (expired) the deadline has elapsed and wait_for
\* cancels it only when the requesting task runs again
NewPending == [state |-> "waiting", result |-> <<>>]

SettableNever == {}

\* the future states in which future.done() is false
Settable == {"waiting", "expired"}

RemovedKeep(p, id) == p

\* del self._pending_requests[id]
Removed(p, id) == [x \in DOMAIN p \ {id} |-> p[x]]

Ran(l) == {l[i] : i \in 1..Len(l)}

\* register_agent for an id that has no mailbox
BusRegister(a) ==
    /\ a \notin DOMAIN queues
    /\ queues' = RegisterAgent(queues, a)
    /\ last' = Called(a, "ok")
    /\ UNCHANGED <<agents, agent_tasks, pc, todo, events, caps, tools, impl_calls,
                   subs, loopVars, busVars, pubVars, sandboxVars>>

\* register_agent for an id that has a mailbox: the id gets a new queue
BusRegisterAgain(a) ==
    /\ a \in DOMAIN queues
    /\ queues' = RegisterAgent(queues, a)
    /\ last' = Called(a, "ok")
    /\ UNCHANGED <<agents, agent_tasks, pc, todo, events, caps, tools, impl_calls,
                   subs, loopVars, busVars, pubVars, sandboxVars>>

\* send
Send(sender_id, recipient_id, payload) ==
    /\ Len(history) < MaxMsgs
    /\ LET message == Message("request", sender_id, recipient_id, payload, 0)
       IN /\ history' = Append(history, message)
          /\ queues' = Put(queues, message)
          /\ last' = [agent |-> sender_id, res |-> "sent", msg |-> <<>>]
    /\ UNCHANGED <<agents, agent_tasks, pc, todo, events, caps, tools, impl_calls,
                   subs, loopVars, pending, received,
                   pubVars, sandboxVars>>

\* request up to the await of the future
Request(sender_id, recipient_id, payload) ==
    /\ Len(history) < MaxMsgs
    /\ LET message == Message("request", sender_id, recipient_id, payload, 0)
       IN /\ history' = Append(history, message)
          /\ queues' = Put(queues, message)
          /\ pending' = [x \in DOMAIN pending \cup {message.id} |->
                            IF x = message.id THEN NewPending ELSE pending[x]]
          /\ last' = [agent |-> sender_id, res |-> "requested", msg |-> <<>>]
    /\ UNCHANGED <<agents, agent_tasks, pc, todo, events, caps, tools, impl_calls,
                   subs, loopVars, received,
                   pubVars, sandboxVars>>

\* the deadline of wait_for elapses: the future is cancelled at once, or only
\* when the requesting task runs again, depending on the asyncio release
Deadline(id) ==
    /\ id \in DOMAIN pending
    /\ pending[id].state = "waiting"
    /\ \E st \in {"cancelled", "expired"} :
          pending' = [pending EXCEPT ![id].state = st]
    /\ UNCHANGED <<agents, agent_tasks, pc, todo, events, caps, tools, impl_calls,
                   queues, subs, last, loopVars, history, received,
                   pubVars, sandboxVars>>

\* request after the await: the response or None, and the finally clause
RequestReturn(id) ==
    /\ id \in DOMAIN pending
    /\ pending[id].state # "waiting"
    /\ last' = [agent |-> history[id].sender_id,
                res |-> IF pending[id].state = "result"
                        THEN "response" ELSE "no_response",
                msg |-> pending[id].result]
    /\ pending' = Removed(pending, id)
    /\ UNCHANGED <<agents, agent_tasks, pc, todo, events, caps, tools, impl_calls,
                   queues, subs, loopVars, history, received,
                   pubVars, sandboxVars>>

\* the task awaiting in request is cancelled: CancelledError leaves request
\* through the finally clause
RequestCancel(id) ==
    /\ id \in DOMAIN pending
    /\ last' = [agent |-> history[id].sender_id, res |-> "cancelled", msg |-> <<>>]
    /\ pending' = Removed(pending, id)
    /\ UNCHANGED <<agents, agent_tasks, pc, todo, events, caps, tools, impl_calls,
                   queues, subs, loopVars, history, received,
                   pubVars, sandboxVars>>

\* the response respond builds for original_message
Response(original_message, payload) ==
    Message("response", original_message.recipient_id,
            original_message.sender_id, payload, original_message.id)

\* respond, called by the recipient on a message it received
Respond(id, payload) ==
    /\ Len(history) < MaxMsgs
    /\ id \in 1..Len(history)
    /\ id \in Ran(received[history[id].recipient_id])
    /\ LET response == Response(history[id], payload)
       IN /\ history' = Append(history, response)
          /\ IF id \in DOMAIN pending
             THEN /\ pending' =
                        IF pending[id].state \in Settable
                        THEN [pending EXCEPT ![id] =
                                 [state |-> "result", result |-> <<response>>]]
                        ELSE pending
                  /\ UNCHANGED queues
             ELSE /\ queues' = Put(queues, response)
                  /\ UNCHANGED pending
          /\ last' = [agent |-> response.sender_id, res |-> "responded",
                      msg |-> <<>>]
    /\ UNCHANGED <<agents, agent_tasks, pc, todo, events, caps, tools, impl_calls,
                   subs, loopVars, received,
                   pubVars, sandboxVars>>

\* receive without timeout: the next message once the mailbox holds one, or
\* None without a mailbox
Receive(a) ==
    /\ a \in DOMAIN queues => queues[a] # <<>>
    /\ IF a \in DOMAIN queues /\ queues[a] # <<>>
       THEN /\ last' = [agent |-> a, res |-> "received", msg |-> <<Head(queues[a])>>]
            /\ queues' = [queues EXCEPT ![a] = Tail(@)]
            /\ received' = [received EXCEPT ![a] = Append(@, Head(queues[a]).id)]
       ELSE /\ last' = [agent |-> a, res |-> "none", msg |-> <<>>]
            /\ UNCHANGED <<queues, received>>
    /\ UNCHANGED <<agents, agent_tasks, pc, todo, events, caps, tools, impl_calls,
                   subs, loopVars, pending, history,
                   pubVars, sandboxVars>>

NextBus ==
    \/ \E a \in Ids : BusRegister(a)
    \/ \E a \in Ids, b \in Recipients, payload \in Payloads : Send(a, b, payload)
    \/ \E a \in Requesters, b \in Recipients : Request(a, b, "p")
    \/ \E id \in 1..MaxMsgs : Deadline(id)
    \/ \E id \in 1..MaxMsgs : RequestReturn(id)
    \/ \E id \in 1..MaxMsgs, payload \in Payloads : Respond(id, payload)
    \/ \E a \in Ids : Receive(a)

SpecBus == Init /\ [][NextBus]_vars

\* the number of subscriptions of all event types
Subscriptions(s) == Len(s["topic"]) + Len(s["*"])

\* subscribe
BusSubscribe(a, event_type) ==
    /\ Subscriptions(subs) < MaxSubs
    /\ Changeable(bcast)
    /\ subs' = [subs EXCEPT ![event_type] = Append(@, a)]
    /\ bcast' = Unsettle(bcast)
    /\ last' = [agent |-> a, res |-> "subscribed", msg |-> <<>>]
    /\ UNCHANGED <<agents, agent_tasks, pc, todo, events, caps, tools, impl_calls,
                   queues, loopVars, busVars, handled, sandboxVars>>

\* unsubscribe
BusUnsubscribe(a, event_type) ==
    /\ Changeable(bcast)
    /\ subs' = [subs EXCEPT ![event_type] = Without(@, a)]
    /\ bcast' = Unsettle(Detach(bcast, subs, {event_type}))
    /\ last' = [agent |-> a, res |-> "unsubscribed", msg |-> <<>>]
    /\ UNCHANGED <<agents, agent_tasks, pc, todo, events, caps, tools, impl_calls,
                   queues, loopVars, busVars, handled, sandboxVars>>

\* unregister_agent
BusUnregister(a) ==
    /\ Changeable(bcast)
    /\ queues' = UnregisterQueue(queues, a)
    /\ subs' = UnregisterSubs(subs, a)
    /\ bcast' = Unsettle(Detach(bcast, subs, DOMAIN subs))
    /\ last' = [agent |-> a, res |-> "unregistered", msg |-> <<>>]
    /\ UNCHANGED <<agents, agent_tasks, pc, todo, events, caps, tools, impl_calls,
                   loopVars, busVars, handled, sandboxVars>>

\* what broadcast gives its caller after the invocations of log: nothing yet,
\* the event, or the failure of a handler; invoked and failed count the
\* handlers that ran and the event_handler_error entries of the log
Outcome(b, log) ==
    [agent |-> b.event.agent_id,
     res |-> CASE b.phase = "returned" -> "event"
               [] b.phase = "raised" -> "raised"
               [] OTHER -> "broadcasting",
     msg |-> IF b.phase = "returned" THEN <<b.event>> ELSE <<>>,
     invoked |-> Len(log),
     failed |-> Cardinality({k \in 1..Len(log) : log[k].outcome = "raise"})]

\* the call is over: its frame is gone
Left(b) == IF b.phase \in {"exact", "wildcard"} THEN b ELSE NoBroadcast

\* broadcast up to the first await of a handler, or to its return when no
\* handler is subscribed
BroadcastCall(sender_id, event_type, data) ==
    /\ bcast.phase = "idle"
    /\ LET b == Enter(Event(event_type, sender_id, data), subs)
       IN /\ bcast' = Left(b)
          /\ handled' = IF b.phase = "returned" THEN <<>>
                        ELSE <<Invocation(b, subs)>>
          /\ last' = Outcome(b, <<>>)
    /\ UNCHANGED <<agents, agent_tasks, pc, todo, events, caps, tools, impl_calls,
                   queues, subs, loopVars, busVars, sandboxVars>>

\* the awaited handler returns or raises: broadcast up to the next await of
\* a handler, or to its return
HandlerReturn(outcome) ==
    /\ bcast.phase \in {"exact", "wildcard"}
    /\ LET done == [handled EXCEPT ![Len(handled)].outcome = outcome]
           b == IF Continues(outcome) THEN Advance(bcast, subs)
                ELSE [bcast EXCEPT !.phase = "raised"]
       IN /\ bcast' = Left(b)
          /\ handled' = IF b.phase \in {"exact", "wildcard"}
                        THEN Append(done, Invocation(b, subs))
                        ELSE <<>>
          /\ last' = Outcome(b, done)
    /\ UNCHANGED <<agents, agent_tasks, pc, todo, events, caps, tools, impl_calls,
                   queues, subs, loopVars, busVars, sandboxVars>>

\* the event types broadcast: one with subscribers, one nobody subscribes
\* to, and the wildcard itself
BroadcastTypes == {"topic", "other", "*"}

NextEvents ==
    \/ \E a \in Ids, event_type \in EventTypes : BusSubscribe(a, event_type)
    \/ \E a \in Ids, event_type \in EventTypes : BusUnsubscribe(a, event_type)
    \/ \E a \in Recipients : BusUnregister(a)
    \/ \E event_type \in BroadcastTypes, data \in Payloads :
          BroadcastCall("a1", event_type, data)
    \/ \E outcome \in HandlerOutcomes : HandlerReturn(outcome)

SpecEvents == Init /\ [][NextEvents]_vars

\* requests of a1 to a2 while agents subscribe and unregister
NextUnregister ==
    \/ \E a \in Recipients : BusRegister(a)
    \/ \E a \in Ids : Subscribe(a, "*")
    \/ \E a \in Ids : BusUnregister(a)
    \/ \E a \in Requesters, b \in Recipients : Request(a, b, "p")
    \/ \E id \in 1..MaxMsgs : Deadline(id)
    \/ \E id \in 1..MaxMsgs : RequestReturn(id)
    \/ \E id \in 1..MaxMsgs : Respond(id, "q")
    \/ \E a \in Recipients : Receive(a)

SpecUnregister == Init /\ [][NextUnregister]_vars

----------------------------------------------------------------------------
(* SandboxManager.execute_command (sandbox.py) *)

SIGKILL == 9

\* what a command has written to its stdout
Outputs == {<<>>, <<"hello">>}

\* the exit codes of a command that ends by itself
ExitCodes == {0, 1}

WallTimeViolation == <<"Exceeded wall time limit">>

\* the SandboxResult built after the wait
SandboxResult(exit_code, stdout, stderr, violations) ==
    [success |-> exit_code = 0 /\ violations = <<>>, output |-> stdout,
     error |-> stderr, exit_code |-> exit_code, violations |-> violations]

\* the wait ended before the wall time limit
Completed(child) == SandboxResult(child.code, child.out, <<>>, <<>>)

\* except asyncio.TimeoutError: what the child wrote is dropped
TimedOut(child) ==
    SandboxResult(-SIGKILL, <<>>, <<"Execution timed out">>, <<WallTimeViolation>>)

\* except Exception
ExecutionError ==
    [success |-> FALSE, output |-> <<>>, error |-> <<"e">>, exit_code |-> -1,
     violations |-> <<<<"Execution error">>>>]

\* shutil.rmtree(sandbox_dir) removes the directory, or raises on what a
\* command that ran left in it
RmtreeOutcomes(id) ==
    IF id \in DOMAIN children THEN {"removed", "raised"} ELSE {"removed"}

\* the call id leaves execute_command with result, through the finally clause
Leave(id, result, rmtree) ==
    /\ executions' = [executions EXCEPT ![id].pc = "returned",
                                        ![id].result = <<result>>]
    /\ active' = active \ {id}
    /\ scratch' = IF rmtree = "removed" THEN scratch \ {id} ELSE scratch

\* execute_command up to the await of create_subprocess_shell; mkdtemp may
\* raise, and then the call raises
ExecuteCommand(allow_temp_files) ==
    /\ Len(executions) < MaxRuns
    /\ LET id == Len(executions) + 1
       IN \E made \in BOOLEAN :
             /\ ~allow_temp_files => made
             /\ executions' = Append(executions,
                                 [pc |-> IF made THEN "spawning" ELSE "raised",
                                  expired |-> FALSE, result |-> <<>>])
             /\ scratch' = IF allow_temp_files /\ made
                           THEN scratch \cup {id} ELSE scratch
    /\ UNCHANGED <<agents, agent_tasks, pc, todo, events, caps, tools, impl_calls,
                   queues, subs, last, loopVars, busVars, pubVars, active,
                   children>>

\* create_subprocess_shell returns the process or raises
SpawnReturn(id, started) ==
    /\ id \in 1..Len(executions)
    /\ executions[id].pc = "spawning"
    /\ IF started
       THEN /\ children' = [x \in DOMAIN children \cup {id} |->
                               IF x = id
                               THEN [state |-> "running", code |-> 0,
                                     out |-> <<>>, waited |-> FALSE]
                               ELSE children[x]]
            /\ active' = active \cup {id}
            /\ executions' = [executions EXCEPT ![id].pc = "communicate"]
            /\ UNCHANGED scratch
       ELSE /\ \E rmtree \in RmtreeOutcomes(id) : Leave(id, ExecutionError, rmtree)
            /\ UNCHANGED children
    /\ UNCHANGED <<agents, agent_tasks, pc, todo, events, caps, tools, impl_calls,
                   queues, subs, last, loopVars, busVars, pubVars>>

\* the command writes to its stdout
ChildWrite(id) ==
    /\ id \in DOMAIN children
    /\ children[id].state = "running"
    /\ children[id].out = <<>>
    /\ children' = [children EXCEPT ![id].out = <<"hello">>]
    /\ UNCHANGED <<agents, agent_tasks, pc, todo, events, caps, tools, impl_calls,
                   queues, subs, last, loopVars, busVars, pubVars, active,
                   scratch, executions>>

\* the command ends by itself
ChildExit(id, code) ==
    /\ id \in DOMAIN children
    /\ children[id].state = "running"
    /\ children' = [children EXCEPT ![id].state = "exited", ![id].code = code]
    /\ UNCHANGED <<agents, agent_tasks, pc, todo, events, caps, tools, impl_calls,
                   queues, subs, last, loopVars, busVars, pubVars, active,
                   scratch, executions>>

\* kill_sandbox
KillSandbox(id) ==
    /\ id \in active
    /\ children[id].state = "running"
    /\ children' = [children EXCEPT ![id].state = "exited", ![id].code = -SIGKILL]
    /\ UNCHANGED <<agents, agent_tasks, pc, todo, events, caps, tools, impl_calls,
                   queues, subs, last, loopVars, busVars, pubVars, active,
                   scratch, executions>>

\* communicate returns: the child ended and was waited on
CommunicateReturn(id) ==
    /\ id \in 1..Len(executions)
    /\ executions[id].pc = "communicate"
    /\ children[id].state = "exited"
    /\ children' = [children EXCEPT ![id].waited = TRUE]
    /\ \E rmtree \in RmtreeOutcomes(id) : Leave(id, Completed(children[id]), rmtree)
    /\ UNCHANGED <<agents, agent_tasks, pc, todo, events, caps, tools, impl_calls,
                   queues, subs, last, loopVars, busVars, pubVars>>

\* max_wall_seconds pass while the child runs: wait_for cancels communicate
WallTimeout(id) ==
    /\ id \in 1..Len(executions)
    /\ executions[id].pc = "communicate"
    /\ children[id].state = "running"
    /\ executions' = [executions EXCEPT ![id].pc = "timeout", ![id].expired = TRUE]
    /\ UNCHANGED <<agents, agent_tasks, pc, todo, events, caps, tools, impl_calls,
                   queues, subs, last, loopVars, busVars, pubVars, active,
                   scratch, children>>

\* wait_for raises TimeoutError: process.kill() up to the await of
\* process.wait(); for a child that ended meanwhile kill does nothing or,
\* once the transport is closed, raises ProcessLookupError
TimeoutReturn(id) ==
    /\ id \in 1..Len(executions)
    /\ executions[id].pc = "timeout"
    /\ IF children[id].state = "running"
       THEN /\ children' = [children EXCEPT ![id].state = "exited",
                                            ![id].code = -SIGKILL]
            /\ executions' = [executions EXCEPT ![id].pc = "wait"]
            /\ UNCHANGED <<active, scratch>>
       ELSE \/ /\ executions' = [executions EXCEPT ![id].pc = "wait"]
               /\ UNCHANGED <<active, scratch, children>>
            \/ /\ \E rmtree \in RmtreeOutcomes(id) : Leave(id, ExecutionError, rmtree)
               /\ UNCHANGED children
    /\ UNCHANGED <<agents, agent_tasks, pc, todo, events, caps, tools, impl_calls,
                   queues, subs, last, loopVars, busVars, pubVars>>

\* process.wait() returns
WaitReturn(id) ==
    /\ id \in 1..Len(executions)
    /\ executions[id].pc = "wait"
    /\ children' = [children EXCEPT ![id].waited = TRUE]
    /\ \E rmtree \in RmtreeOutcomes(id) : Leave(id, TimedOut(children[id]), rmtree)
    /\ UNCHANGED <<agents, agent_tasks, pc, todo, events, caps, tools, impl_calls,
                   queues, subs, last, loopVars, busVars, pubVars>>

NextSandbox ==
    \/ \E allow_temp_files \in BOOLEAN : ExecuteCommand(allow_temp_files)
    \/ \E id \in 1..MaxRuns, started \in BOOLEAN : SpawnReturn(id, started)
    \/ \E id \in 1..MaxRuns : ChildWrite(id)
    \/ \E id \in 1..MaxRuns, code \in ExitCodes : ChildExit(id, code)
    \/ \E id \in 1..MaxRuns : KillSandbox(id)
    \/ \E id \in 1..MaxRuns : CommunicateReturn(id)
    \/ \E id \in 1..MaxRuns : WallTimeout(id)
    \/ \E id \in 1..MaxRuns : TimeoutReturn(id)
    \/ \E id \in 1..MaxRuns : WaitReturn(id)

SpecSandbox == Init /\ [][NextSandbox]_vars

----------------------------------------------------------------------------
(* SandboxManager.check_path_allowed (sandbox.py) *)

\* a path is a sequence of these symbols; symbols that follow each other
\* without a "/" make one name
PathSymbols == {"/", "tmp", "x", "..", "~"}

\* the home directory and the working directory of the process
Home == <<"/", "home">>
Cwd == <<"/", "work">>

\* os.path.expanduser: a leading "~" that is a whole name becomes the home
\* directory; "~name" of no user stays
Expanduser(path) ==
    IF path # <<>> /\ Head(path) = "~" /\ (Len(path) = 1 \/ path[2] = "/")
    THEN Home \o Tail(path)
    ELSE path

RECURSIVE NewComps(_, _)
\* the loop of posixpath.normpath over the components of an absolute path
NewComps(comps, new_comps) ==
    IF comps = <<>> THEN new_comps
    ELSE LET comp == Head(comps)
         IN IF comp = <<>> THEN NewComps(Tail(comps), new_comps)
            ELSE IF \/ comp # <<"..">>
                    \/ (new_comps # <<>> /\ new_comps[Len(new_comps)] = <<"..">>)
                 THEN NewComps(Tail(comps), Append(new_comps, comp))
            ELSE IF new_comps # <<>>
                 THEN NewComps(Tail(comps), SubSeq(new_comps, 1, Len(new_comps) - 1))
            ELSE NewComps(Tail(comps), new_comps)

RECURSIVE Concat(_, _)
\* sep.join(parts) for parts that are sequences of symbols
Concat(parts, sep) ==
    IF parts = <<>> THEN <<>>
    ELSE IF Len(parts) = 1 THEN parts[1]
    ELSE parts[1] \o <<sep>> \o Concat(Tail(parts), sep)

\* posixpath.normpath of an absolute path: exactly two leading slashes stay
Normpath(path) ==
    LET two == /\ Len(path) >= 2
               /\ path[2] = "/"
               /\ ~(Len(path) >= 3 /\ path[3] = "/")
    IN (IF two THEN <<"/", "/">> ELSE <<"/">>)
          \o Concat(NewComps(Split(path, "/"), <<>>), "/")

\* os.path.abspath
Abspath(path) ==
    Normpath(IF path # <<>> /\ Head(path) = "/" THEN path
             ELSE Cwd \o <<"/">> \o path)

\* the path as check_path_allowed compares it
Resolved(path) == Abspath(Expanduser(path))

PathMatchesEqual(path, entry) == path = entry

\* path.startswith(entry) or path == entry
PathMatches(path, entry) == StartsWith(path, entry) \/ path = entry

RECURSIVE InPaths(_, _)
\* the loop over a list of the policy: some entry, resolved, matches path
InPaths(path, entries) ==
    IF entries = <<>> THEN FALSE
    ELSE IF PathMatches(path, Resolved(Head(entries))) THEN TRUE
    ELSE InPaths(path, Tail(entries))

\* check_path_allowed
CheckPathAllowed(path, policy, action) ==
    LET resolved == Resolved(path)
        allowed_paths == IF action = "read" THEN policy.allowed_read_paths
                         ELSE policy.allowed_write_paths
    IN IF InPaths(resolved, policy.denied_paths)
       THEN [allowed |-> FALSE, reason |-> "denied"]
       ELSE IF allowed_paths = <<>>
       THEN [allowed |-> TRUE, reason |-> "none"]
       ELSE IF InPaths(resolved, allowed_paths)
       THEN [allowed |-> TRUE, reason |-> "none"]
       ELSE [allowed |-> FALSE, reason |-> "not allowed"]

\* the paths callers give
Paths == UNION {[1..n -> PathSymbols] : n \in 1..MaxPathLen}

\* the lists of a FilesystemPolicy
DeniedLists == {<<>>, << <<"/", "tmp", "/", "x">> >>, << <<"~">>, <<"/", "x">> >>}
AllowedLists == {<<>>, << <<"/", "tmp">> >>, << <<"x">>, <<"/", "tmp", "/", "x", "/">> >>}

Policies ==
    [denied_paths : DeniedLists, allowed_read_paths : AllowedLists,
     allowed_write_paths : {<<>>, << <<"/", "tmp">> >>}]

PathActions == {"read", "write", "delete"}

\* no call was made yet
Fresh == last = Called("none", "ok")

\* one call of check_path_allowed
CheckPath(path, policy, action) ==
    /\ Fresh
    /\ last' = [agent |-> "none", res |-> "path", path |-> path,
                policy |-> policy, action |-> action,
                result |-> CheckPathAllowed(path, policy, action)]
    /\ UNCHANGED <<agents, agent_tasks, pc, todo, events, caps, tools, impl_calls,
                   queues, subs, loopVars, busVars, pubVars, sandboxVars>>

NextPaths ==
    /\ Fresh
    /\ \E path \in Paths, policy \in Policies, action \in PathActions :
          CheckPath(path, policy, action)

SpecPaths == Init /\ [][NextPaths]_vars

----------------------------------------------------------------------------
(* Capability.parse called directly *)

CapSymbols == {"file", ":", "x", ",", "read"}

\* the strings callers give, the empty string among them
CapStrings == UNION {[1..n -> CapSymbols] : n \in 0..MaxCapLen}

\* the strings granted
GrantStrings ==
    {FileRead, ShellOnly, <<>>, <<":", "x", ":", "read">>,
     <<"file", ":", ":", "read">>}

\* one call of Capability.parse: the Capability, or ValueError
ParseString(capability_string) ==
    /\ Fresh
    /\ last' = [agent |-> "none",
                res |-> IF ParseOk(capability_string)
                        THEN "capability" ELSE "ValueError",
                string |-> capability_string,
                capability |-> IF ParseOk(capability_string)
                               THEN <<Parse(capability_string)>> ELSE <<>>]
    /\ UNCHANGED <<agents, agent_tasks, pc, todo, events, caps, tools, impl_calls,
                   queues, subs, loopVars, busVars, pubVars, sandboxVars>>

NextParse ==
    \/ /\ Fresh
       /\ \E capability_string \in CapStrings : ParseString(capability_string)
    \/ \E capability_string \in GrantStrings :
          GrantFromString("a1", capability_string)

SpecParse == Init /\ [][NextParse]_vars

----------------------------------------------------------------------------
(* check_command_safe (sandbox.py) *)

\* a command is words joined by single spaces; a word is one symbol, the
\* space another; url stands for any URL, RM is rm in upper case
CmdWords == {"rm", "RM", "-rf", "/", "curl", "url", "|", "sh", "sudo", "ls"}

Commands == UNION {[1..n -> CmdWords] : n \in 1..MaxCmdLen}

RECURSIVE Spaced(_)
\* the command string of the words
Spaced(words) ==
    IF Len(words) <= 1 THEN words
    ELSE <<Head(words), " ">> \o Spaced(Tail(words))

\* str.lower
Lower(string) == [k \in 1..Len(string) |-> IF string[k] = "RM" THEN "rm" ELSE string[k]]

\* pattern in string
Contains(string, pattern) ==
    \E k \in 1..(Len(string) - Len(pattern) + 1) :
       SubSeq(string, k, k + Len(pattern) - 1) = pattern

\* dangerous_patterns
DangerousPatterns ==
    << [pattern |-> <<"rm", " ", "-rf", " ", "/">>,
        warning |-> "Attempts to delete root filesystem"],
       [pattern |-> <<"rm", " ", "-rf", " ", "~">>,
        warning |-> "Attempts to delete home directory"],
       [pattern |-> <<":(){:|:&};:">>, warning |-> "Fork bomb detected"],
       [pattern |-> <<"dd", " ", "if=/dev/zero">>,
        warning |-> "Disk overwrite detected"],
       [pattern |-> <<"mkfs.">>, warning |-> "Filesystem format detected"],
       [pattern |-> <<">", " ", "/dev/sda">>,
        warning |-> "Direct disk write detected"],
       [pattern |-> <<"chmod", " ", "777", " ", "/">>,
        warning |-> "Dangerous permission change"],
       [pattern |-> <<"curl", " ", "|", " ", "sh">>,
        warning |-> "Piped remote code execution"],
       [pattern |-> <<"wget", " ", "|", " ", "sh">>,
        warning |-> "Piped remote code execution"],
       [pattern |-> <<"eval", " ", "$(">>, warning |-> "Dynamic code execution"] >>

RECURSIVE Scan(_, _)
\* the loop over the patterns: the warnings of those command_lower contains
Scan(patterns, command_lower) ==
    IF patterns = <<>> THEN <<>>
    ELSE (IF Contains(command_lower, Lower(Head(patterns).pattern))
          THEN <<Head(patterns).warning>> ELSE <<>>)
            \o Scan(Tail(patterns), command_lower)

\* check_command_safe
CheckCommandSafe(command) ==
    LET warnings ==
           Scan(DangerousPatterns, Lower(command))
              \o (IF \/ Contains(command, <<"sudo", " ">>)
                     \/ StartsWith(command, <<"su", " ">>)
                  THEN <<"Privilege escalation attempt">> ELSE <<>>)
    IN [safe |-> Len(warnings) = 0, warnings |-> warnings]

\* one call of check_command_safe
CheckCommand(words) ==
    /\ Fresh
    /\ last' = [agent |-> "none", res |-> "command", words |-> words,
                result |-> CheckCommandSafe(Spaced(words))]
    /\ UNCHANGED <<agents, agent_tasks, pc, todo, events, caps, tools, impl_calls,
                   queues, subs, loopVars, busVars, pubVars, sandboxVars>>

NextCommands ==
    /\ Fresh
    /\ \E words \in Commands : CheckCommand(words)

SpecCommands == Init /\ [][NextCommands]_vars

----------------------------------------------------------------------------
(* The lifecycle claims *)

\* C1: once an agent's state is completed, failed or terminated, no step
\* changes it
C1_TerminalFinal ==
    [][\A a \in DOMAIN agents :
          agents[a].state \in Terminal => agents'[a].state = agents[a].state]_vars

\* the agent was RUNNING when Terminate was called on it
TerminatedWhileRunning(a) ==
    /\ agents[a].state = "terminated"
    /\ Count(events[a], "agent.started") = 1
    /\ Count(events[a], "agent.paused") = Count(events[a], "agent.resumed")

\* C2: after Terminate on a RUNNING agent has returned, the loop makes no
\* inference call, invokes no tool and appends nothing to tool_calls
C2_TerminateCancels ==
    [][\A a \in DOMAIN agents :
          TerminatedWhileRunning(a) =>
             /\ agents'[a].tool_calls = agents[a].tool_calls
             /\ agents'[a].iterations = agents[a].iterations
             /\ impl_calls'[a] = impl_calls[a]]_vars

\* C3: when Run has returned, the agent is completed, failed or terminated
C3_RunEndsTerminal ==
    \A a \in DOMAIN agents : pc[a] = "returned" => agents[a].state \in Terminal

\* C7: Terminate on a pending, running or paused agent leaves it terminated;
\* on an agent in any other state it raises nothing, changes no agent,
\* capability or bus state and emits no event
C7_TerminateIdempotent ==
    [][\A a \in DOMAIN agents :
          Terminate(a) =>
             /\ last'.res = "ok"
             /\ IF agents[a].state \in {"pending", "running", "paused"}
                THEN agents'[a].state = "terminated"
                ELSE UNCHANGED <<agents, agent_tasks, pc, todo, events, caps,
                                 queues, subs, loopVars, busVars, pubVars, sandboxVars>>]_vars

\* Terminate has acted on an agent whose loop awaits the inference service
C7_Witness ==
    \E a \in DOMAIN agents :
       /\ last = Called(a, "ok")
       /\ agents[a].state = "terminated"
       /\ events[a][Len(events[a])] = "agent.terminated"
       /\ pc[a] = "await_llm"

\* C8: when Terminate returns for an agent that was not terminal, the store
\* holds no grant for it, every Check for it is denied, and the bus has no
\* mailbox and no subscription of it
C8_TerminateReleases ==
    [][\A a \in DOMAIN agents :
          (Terminate(a) /\ agents[a].state \in {"pending", "running", "paused"}) =>
             /\ CapsOf(caps', a) = <<>>
             /\ NoneAllowed(caps', a)
             /\ a \notin DOMAIN queues'
             /\ \A t \in DOMAIN subs' : ~InList(a, subs'[t])]_vars

\* Terminate has returned for an agent that was running
C8_Witness ==
    \E a \in DOMAIN agents :
       /\ last = Called(a, "ok")
       /\ TerminatedWhileRunning(a)
       /\ events[a][Len(events[a])] = "agent.terminated"
       /\ a \notin DOMAIN queues \cup DOMAIN caps

\* C9: every agent on which Run was called eventually reaches a terminal state
C9_RunTerminates ==
    \A a \in Ids :
       (pc[a] # "none") ~> (a \in DOMAIN agents /\ agents[a].state \in Terminal)

\* C10: Run on an agent that is not pending, and Run, Pause, Resume or
\* Terminate on an unknown id, signal an error, change nothing and emit nothing
C10_RejectedNoEffect ==
    [][\A a \in Ids :
          (\/ Run(a) /\ ~(a \in DOMAIN agents /\ agents[a].state = "pending")
           \/ (Pause(a) \/ Resume(a) \/ Terminate(a)) /\ a \notin DOMAIN agents) =>
             /\ last'.res = "error"
             /\ UNCHANGED <<agents, agent_tasks, pc, todo, events, caps, tools,
                            impl_calls, queues, subs, loopVars, busVars, pubVars, sandboxVars>>]_vars

\* a second Run was rejected after the first had completed
C10_Witness ==
    \E a \in DOMAIN agents :
       /\ last = Called(a, "error")
       /\ agents[a].state = "completed"
       /\ pc[a] = "returned"
       /\ agents[a].iterations > 0

----------------------------------------------------------------------------
(* The capability and tool claims *)

\* the declared capability strings of tool_name whose Check fails for agent a
Failing(a, tool_name) ==
    {i \in 1..Len(tools[tool_name]) :
        LET r == Required(tools[tool_name][i])
        IN ~Check(caps, a, r.resource, r.path, r.action).allowed}

Least(S) == CHOOSE i \in S : \A j \in S : i <= j

\* C4: Execute invokes the implementation only if the tool is registered and
\* every declared capability passes Check for the agent; if a check fails the
\* implementation is not invoked and the result is DENIED with the reason of
\* the first failing check in declaration order
C4_ExecuteGated ==
    [][\A a \in Ids, t \in ToolNames :
          Execute(a, t) =>
             LET invoked == impl_calls'[a] # impl_calls[a]
             IN /\ invoked => (t \in DOMAIN tools /\ Failing(a, t) = {})
                /\ (t \in DOMAIN tools /\ Failing(a, t) # {}) =>
                      LET r == Required(tools[t][Least(Failing(a, t))])
                      IN /\ ~invoked
                         /\ last'.result.status = "denied"
                         /\ last'.result.error =
                               <<"Permission denied">>
                               \o Check(caps, a, r.resource, r.path, r.action).reason]_vars

\* Execute of a tool whose first declared capability is granted and whose
\* second is not was denied for the second
C4_Witness ==
    \E a \in Ids :
       /\ last.res = "result"
       /\ last.agent = a
       /\ "probe" \in DOMAIN tools
       /\ last.result =
             ToolResult("probe", "denied",
                        <<"Permission denied", "No capability grants",
                          "shell", ":", "*", ":", "execute">>)
       /\ Len(CapsOf(caps, a)) > 0
       /\ impl_calls[a] = <<>>

\* the matching rule as the specification words it
RuleMatches(c, q) ==
    /\ c.resource = Star \/ c.resource = q.resource
    /\ \/ c.path = Star
       \/ c.path = q.path
       \/ /\ EndsWithStar(c.path)
          /\ StartsWith(q.path, SubSeq(c.path, 1, Len(c.path) - 1))
    /\ InList(Star, c.actions) \/ InList(q.action, c.actions)

Matching(l, q) == {i \in 1..Len(l) : RuleMatches(l[i], q)}

\* C5: Check allows a request iff some granted capability matches it by the
\* rule, and then reports the first matching capability in grant order
C5_CheckFirstMatch ==
    \A a \in Ids, q \in Requests :
       LET l == CapsOf(caps, a)
           r == Check(caps, a, q.resource, q.path, q.action)
       IN /\ r.allowed <=> Matching(l, q) # {}
          /\ r.allowed => r.capability = <<l[Least(Matching(l, q))]>>

\* a Check was allowed for an agent holding two different capabilities, one
\* of which matches some request the other does not
C5_Witness ==
    \E a \in Ids, q \in Requests :
       /\ last = Called(a, "allowed")
       /\ Len(CapsOf(caps, a)) = 2
       /\ Matching(caps[a], q) = {2}

\* C6: after RevokeAll for an agent every Check for it is denied, and stays
\* denied until a Grant is made for that agent
C6_RevokeAllDenies ==
    [][\A a \in Ids :
          (\/ RevokeAll(a)
           \/ /\ NoneAllowed(caps, a)
              /\ ~ \E capability \in CapUniverse : Grant(a, capability)) =>
             NoneAllowed(caps', a)]_vars

\* RevokeAll was called for an agent while another agent holds grants
C6_Witness ==
    \E a \in Ids, b \in Ids :
       /\ last = Called(a, "revoked_all")
       /\ a \notin DOMAIN caps
       /\ ~NoneAllowed(caps, b)

\* C12: Execute always returns a result: error and no invocation for an
\* unknown tool name, timeout when the implementation raised TimeoutError,
\* error with the message when it raised anything else, success when it
\* returned
C12_ExecuteTotal ==
    [][\A a \in Ids, t \in ToolNames :
          Execute(a, t) =>
             /\ last'.res = "result"
             /\ last'.result.tool_name = t
             /\ t \notin DOMAIN tools =>
                   /\ last'.result.status = "error"
                   /\ last'.result.error = <<"Unknown tool", t>>
                   /\ impl_calls' = impl_calls
             /\ impl_calls' = impl_calls <=> last'.impl = "none"
             /\ last'.impl = "timeout" => last'.result.status = "timeout"
             /\ last'.impl = "error" =>
                   /\ last'.result.status = "error"
                   /\ last'.result.error = <<"failure message">>
             /\ last'.impl = "success" => last'.result.status = "success"]_vars

\* an implementation that was invoked raised TimeoutError
C12_Witness ==
    \E a \in Ids :
       /\ last.res = "result"
       /\ last.agent = a
       /\ last.impl = "timeout"
       /\ last.result.status = "timeout"
       /\ impl_calls[a] # <<>>

\* C13: Execute of the shell tool whose command exceeded its time limit
\* returns a result of status timeout
C13_ShellTimeout ==
    [][\A a \in Ids :
          (Execute(a, "shell.execute") /\ last'.event = "time_limit") =>
             last'.result.status = "timeout"]_vars

----------------------------------------------------------------------------
(* The loop claims *)

\* everything but last
state == <<agents, agent_tasks, pc, todo, events, caps, tools, impl_calls,
           queues, subs, loopVars, busVars, pubVars, sandboxVars>>

\* C11: Pause changes only the state, from running to paused, and Resume
\* only from paused to running; on an agent in any other state each raises
\* nothing, changes no field of the agent and emits no event
C11_PauseResumeOnly ==
    [][\A a \in DOMAIN agents :
          /\ Pause(a) =>
                /\ last'.res = "ok"
                /\ IF agents[a].state = "running"
                   THEN agents' = [agents EXCEPT ![a].state = "paused"]
                   ELSE UNCHANGED state
          /\ Resume(a) =>
                /\ last'.res = "ok"
                /\ IF agents[a].state = "paused"
                   THEN agents' = [agents EXCEPT ![a].state = "running"]
                   ELSE UNCHANGED state]_vars

\* Resume has acted on a paused agent whose Run had returned
C11_Witness ==
    \E a \in DOMAIN agents :
       /\ last = Called(a, "ok")
       /\ agents[a].state = "running"
       /\ pc[a] = "returned"
       /\ events[a][Len(events[a])] = "agent.resumed"

\* the loop of a takes the step that follows the recording of a tool call
AfterRecord(a) ==
    /\ pc[a] \in {"end_tools", "next_tool"}
    /\ tool_results'[a] # tool_results[a]

\* C14: a tool result that is denied, error or timeout is appended to
\* tool_calls and leaves the agent's state alone; the loop goes on, puts the
\* error text in the tool_result block it feeds to the conversation, and a
\* running agent below its limit proceeds to the next inference call
C14_ToolFailureAbsorbed ==
    [][\A a \in DOMAIN agents :
          LET n == Len(agents[a].tool_calls)
          IN /\ (/\ Len(agents'[a].tool_calls) = n + 1
                 /\ agents'[a].tool_calls[n + 1].result.status # "success") =>
                   /\ agents'[a].state = agents[a].state
                   /\ pc'[a] \in {"end_tools", "next_tool"}
             /\ (/\ AfterRecord(a)
                 /\ agents[a].tool_calls[n].result.status # "success") =>
                   /\ tool_results'[a] =
                         Append(tool_results[a],
                                <<"Error">> \o agents[a].tool_calls[n].result.error)
                   /\ agents'[a].state # "failed"
                   /\ pc[a] = "end_tools" =>
                         /\ messages'[a] = Append(messages[a], tool_results'[a])
                         /\ (/\ agents[a].state = "running"
                             /\ agents[a].iterations < agents[a].max_iterations) =>
                               /\ pc'[a] = "await_llm"
                               /\ llm_calls'[a] = llm_calls[a] + 1
                               /\ agents'[a].state = "running"]_vars

\* a running agent made its second inference call with the text of a
\* denial in its conversation
C14_Witness ==
    \E a \in DOMAIN agents :
       /\ agents[a].state = "running"
       /\ pc[a] = "await_llm"
       /\ llm_calls[a] = 2
       /\ agents[a].tool_calls[1].result.status = "denied"
       /\ messages[a][3][1][1] = "Error"
       /\ messages[a][3][1][2] = "Permission denied"

\* the awaited messages.create raised: the loop left its await without
\* appending the assistant content
Raised(a) ==
    /\ pc[a] = "await_llm"
    /\ pc'[a] # "await_llm"
    /\ messages'[a] = messages[a]

----------------------------------------------------------------------------
(* The message bus claims *)

QueueIds(q) == [i \in 1..Len(q) |-> q[i].id]

\* C17: what Receive returned for a recipient, followed by what its mailbox
\* holds, are messages addressed to it, unchanged, each once, in the order
\* they were sent; a Send appends its message, with the sender and the
\* payload given, to the recipient's mailbox and to no other; Receive
\* returns and removes the head of the mailbox
C17_MailboxFifo ==
    /\ [](\A b \in DOMAIN queues :
            LET ids == received[b] \o QueueIds(queues[b])
            IN /\ \A i \in 1..Len(ids) : \A j \in 1..Len(ids) :
                     i < j => ids[i] < ids[j]
               /\ \A i \in 1..Len(ids) : history[ids[i]].recipient_id = b
               /\ \A i \in 1..Len(queues[b]) :
                     queues[b][i] = history[queues[b][i].id])
    /\ [][\A a \in Ids, b \in DOMAIN queues, payload \in Payloads :
            /\ Send(a, b, payload) =>
                  LET m == queues'[b][Len(queues'[b])]
                  IN /\ queues' = [queues EXCEPT ![b] = Append(@, m)]
                     /\ m.sender_id = a
                     /\ m.recipient_id = b
                     /\ m.payload = payload
            /\ (Receive(b) /\ queues[b] # <<>>) =>
                  /\ last'.msg = <<Head(queues[b])>>
                  /\ queues' = [queues EXCEPT ![b] = Tail(@)]]_vars

\* a recipient received a message of a1 and then one of a2 while a third
\* message waits in its mailbox
C17_Witness ==
    \E b \in DOMAIN queues :
       /\ last.res = "received"
       /\ last.agent = b
       /\ Len(received[b]) = 2
       /\ history[received[b][1]].sender_id = "a1"
       /\ history[received[b][2]].sender_id = "a2"
       /\ last.msg = <<history[received[b][2]]>>
       /\ Len(queues[b]) = 1

\* C18: a Respond on a request whose Request call still waits puts the
\* response (the payload given, reply_to the request's id, sent by the
\* recipient to the requester) in the call's future and in no mailbox; the
\* future keeps it, and the Request call returns it
C18_RespondResolves ==
    [][\A id \in DOMAIN pending :
          /\ \A payload \in Payloads :
                (Respond(id, payload) /\ pending[id].state = "waiting") =>
                   /\ pending'[id].state = "result"
                   /\ pending'[id].result =
                         <<[id |-> Len(history) + 1, type |-> "response",
                            sender_id |-> history[id].recipient_id,
                            recipient_id |-> history[id].sender_id,
                            payload |-> payload, reply_to |-> id]>>
                   /\ queues' = queues
          /\ (pending[id].state = "result" /\ id \in DOMAIN pending') =>
                pending'[id] = pending[id]
          /\ (RequestReturn(id) /\ pending[id].state = "result") =>
                /\ last'.res = "response"
                /\ last'.agent = history[id].sender_id
                /\ last'.msg = pending[id].result
                /\ queues' = queues]_vars

\* the Request of a1 returned the response of a2, and the mailbox of a1 is empty
C18_Witness ==
    /\ last.res = "response"
    /\ last.agent = "a1"
    /\ last.msg # <<>>
    /\ last.msg[1].sender_id = "a2"
    /\ last.msg[1].payload = "q"
    /\ history[last.msg[1].reply_to].type = "request"
    /\ last.msg[1].reply_to \notin DOMAIN pending
    /\ "a1" \in DOMAIN queues
    /\ queues["a1"] = <<>>

C20_ResponseDelivered ==
    [][\A id \in 1..Len(history), payload \in Payloads :
          (Respond(id, payload) /\ history[id].sender_id \in DOMAIN queues) =>
             LET response == history'[Len(history')]
                 to == history[id].sender_id
                 resolved == /\ id \in DOMAIN pending'
                             /\ pending'[id].result = <<response>>
                 queued == queues'[to] = Append(queues[to], response)
             IN (resolved \/ queued) /\ ~(resolved /\ queued)]_vars

\* C21: a Send to a recipient that has no mailbox returns the message and
\* changes nothing else: no mailbox, no pending request, no subscription and
\* not the shared history
C21_SendUnregisteredNoop ==
    [][\A a \in Ids, b \in Recipients, payload \in Payloads :
          (Send(a, b, payload) /\ b \notin DOMAIN queues) =>
             /\ last'.res = "sent"
             /\ queues' = queues
             /\ pending' = pending
             /\ subs' = subs
             /\ history' = history]_vars

\* C22: unregistering an agent removes its mailbox and every subscription of
\* it, keeps the mailboxes and subscriptions of the others and leaves every
\* pending request as it was; a waiting request changes only by its deadline
\* or by a Respond, and its Request call then returns empty or the response
C22_UnregisterKeepsPending ==
    [][/\ \A b \in Ids :
             BusUnregister(b) =>
                /\ b \notin DOMAIN queues'
                /\ \A t \in EventTypes : ~InList(b, subs'[t])
                /\ \A c \in DOMAIN queues \ {b} :
                      c \in DOMAIN queues' /\ queues'[c] = queues[c]
                /\ \A t \in EventTypes :
                      Len(subs'[t]) = Len(subs[t]) - Count(subs[t], b)
                /\ pending' = pending
       /\ \A id \in DOMAIN pending :
             (/\ pending[id].state = "waiting"
              /\ (id \notin DOMAIN pending' \/ pending'[id] # pending[id])) =>
                /\ Deadline(id) \/ Respond(id, "q")
                /\ id \in DOMAIN pending'
                /\ pending'[id].state \in {"cancelled", "expired", "result"}]_vars

\* a2 was unregistered while the request of a1 to it
\* waits; the subscription of a1 is still there
C22_Witness ==
    /\ last = [agent |-> "a2", res |-> "unregistered", msg |-> <<>>]
    /\ "a2" \notin DOMAIN queues
    /\ \E id \in DOMAIN pending :
          /\ pending[id].state = "waiting"
          /\ history[id].recipient_id = "a2"
    /\ subs["*"] = <<"a1">>
    /\ subs["topic"] = <<>>

\* the subscriptions a broadcast of event_type reaches: those of the type,
\* then those of the wildcard
Reached(event_type) ==
    (IF event_type \in DOMAIN subs THEN subs[event_type] ELSE <<>>) \o subs["*"]

\* C23: a Broadcast during which no subscription changed has, when it
\* returns, invoked the handler of each subscription of the event's type and
\* then of each wildcard subscription, once per subscription and no other
\* handler, each with the event of the sender, type and data given; it
\* returns that event
C23_BroadcastInvokes ==
    [][/\ \A event_type \in BroadcastTypes, data \in Payloads :
             BroadcastCall("a1", event_type, data) =>
                /\ last'.res = "event" =>
                      /\ Reached(event_type) = <<>>
                      /\ last'.msg = <<[type |-> event_type, agent_id |-> "a1",
                                        data |-> data]>>
                      /\ last'.invoked = 0
                /\ last'.res # "event" =>
                      bcast'.event = [type |-> event_type, agent_id |-> "a1",
                                      data |-> data]
       /\ (last'.res = "event" /\ bcast.phase # "idle" /\ bcast.changes = 0) =>
             LET reached == Reached(bcast.event.type)
             IN /\ Len(handled) = Len(reached)
                /\ \A k \in 1..Len(handled) :
                      /\ handled[k].agent_id = reached[k]
                      /\ handled[k].event = bcast.event
                /\ last'.msg = <<bcast.event>>
                /\ last'.invoked = Len(reached)]_vars

\* a broadcast of type topic returned after the two handlers a1 subscribed
\* to topic and the wildcard handler of a2 ran
C23_Witness ==
    /\ last.res = "event"
    /\ last.msg[1].type = "topic"
    /\ last.invoked = 3
    /\ subs["topic"] = <<"a1", "a1">>
    /\ subs["*"] = <<"a2">>

\* C24: when a handler raises during a Broadcast, the Broadcast raises
\* nothing: it invokes the handler of the next subscription it reaches, or,
\* after the last one, returns the event
C24_HandlerFailureIsolated ==
    [][(HandlerReturn("raise") /\ bcast.changes = 0) =>
          LET reached == Reached(bcast.event.type)
              n == Len(handled)
          IN /\ last'.res # "raised"
             /\ last'.failed >= 1
             /\ IF n < Len(reached)
                THEN /\ Len(handled') = n + 1
                     /\ handled'[n].outcome = "raise"
                     /\ handled'[n + 1].agent_id = reached[n + 1]
                     /\ handled'[n + 1].event = bcast.event
                     /\ last'.res = "broadcasting"
                ELSE /\ last'.res = "event"
                     /\ last'.invoked = Len(reached)
                     /\ last'.msg = <<bcast.event>>]_vars

\* a broadcast returned its event after it invoked the handlers of all three
\* subscriptions, two of which raised
C24_Witness ==
    /\ last.res = "event"
    /\ last.invoked = 3
    /\ last.failed = 2
    /\ Subscriptions(subs) = 3
    /\ last.msg[1].agent_id = "a1"

----------------------------------------------------------------------------
(* The sandbox claims *)

\* C25: the result of ExecuteCommand has success exactly when the child's
\* exit code is 0 and no violation was recorded; when the wall time limit
\* passed while the command ran, the result has success false, a violation
\* naming the wall time limit, and an empty output
C25_SuccessAndTimeout ==
    \A id \in 1..Len(executions) :
       executions[id].pc = "returned" =>
          LET result == executions[id].result[1]
          IN /\ result.success <=>
                   /\ id \in DOMAIN children
                   /\ children[id].code = 0
                   /\ result.violations = <<>>
             /\ executions[id].expired =>
                   /\ ~result.success
                   /\ \E k \in 1..Len(result.violations) :
                         result.violations[k] = WallTimeViolation
                   /\ result.output = <<>>

\* C26: when a call of ExecuteCommand has returned, its scratch directory no
\* longer exists, it has no entry in the active table, and the child it
\* started is not running and, when the call killed it, has been waited on
C26_GuaranteedRelease ==
    \A id \in 1..Len(executions) :
       executions[id].pc = "returned" =>
          /\ id \notin scratch
          /\ id \notin active
          /\ id \in DOMAIN children =>
                /\ children[id].state # "running"
                /\ children[id].waited

\* a path of entries, resolved, equals path or is a prefix of it
Covers(entries, path) ==
    \E k \in 1..Len(entries) :
       LET entry == Resolved(entries[k])
       IN /\ Len(entry) <= Len(path)
          /\ SubSeq(path, 1, Len(entry)) = entry

\* C27: CheckPathAllowed is false when a denied path equals or prefixes the
\* resolved path, whatever the allow lists hold; otherwise it is true exactly
\* when the allow list of the action (the read list for read, the write list
\* for every other action) is empty or holds a path that equals or prefixes
\* the resolved path
C27_CheckPathAllowed ==
    last.res = "path" =>
       LET path == Resolved(last.path)
           allow == IF last.action = "read" THEN last.policy.allowed_read_paths
                    ELSE last.policy.allowed_write_paths
       IN /\ Covers(last.policy.denied_paths, path) => ~last.result.allowed
          /\ ~Covers(last.policy.denied_paths, path) =>
                (last.result.allowed <=> (allow = <<>> \/ Covers(allow, path)))

\* /tmp/x is on the read list through /tmp and is denied as /tmp/x: the
\* check refuses it
C27_Witness ==
    /\ last.res = "path"
    /\ last.path = <<"/", "tmp", "/", "x">>
    /\ last.action = "read"
    /\ last.policy.denied_paths = << <<"/", "tmp", "/", "x">> >>
    /\ last.policy.allowed_read_paths = << <<"/", "tmp">> >>
    /\ ~last.result.allowed

----------------------------------------------------------------------------
(* The capability string claims *)

\* resource[:path[:action1,action2,...]] with no empty part
InGrammar(capability_string) ==
    LET parts == Split(capability_string, ":")
    IN /\ Len(parts) \in 1..3
       /\ \A k \in 1..Len(parts) : parts[k] # <<>>
       /\ Len(parts) = 3 =>
             \A k \in 1..Len(Split(parts[3], ",")) : Split(parts[3], ",")[k] # <<>>

\* C28: every string of the grammar resource[:path[:actions]] parses: to its
\* resource, to its path or "*" when it has none, and to its actions or
\* <<"*">> when it has none
C28_ParseGrammar ==
    (last.res \in {"capability", "ValueError"} /\ InGrammar(last.string)) =>
       LET parts == Split(last.string, ":")
       IN /\ last.res = "capability"
          /\ last.capability[1].resource = parts[1]
          /\ last.capability[1].path = IF Len(parts) >= 2 THEN parts[2] ELSE <<"*">>
          /\ last.capability[1].actions =
                IF Len(parts) = 3 THEN Split(parts[3], ",") ELSE << <<"*">> >>

\* C29: parse returns no Capability whose resource or path is empty, and a
\* grant from a string that is rejected leaves the grant lists unchanged
C29_ParseRejects ==
    /\ [](last.res = "capability" =>
             /\ last.capability[1].resource # <<>>
             /\ last.capability[1].path # <<>>)
    /\ [](\A a \in DOMAIN caps : \A k \in 1..Len(caps[a]) :
             caps[a][k].resource # <<>> /\ caps[a][k].path # <<>>)
    /\ [][\A capability_string \in GrantStrings :
            (GrantFromString("a1", capability_string) /\ last'.res = "error") =>
               caps' = caps]_vars

----------------------------------------------------------------------------
(* The command scan claim *)

\* words[k], words[k + 1], ... are the words of run
At(words, k, run) ==
    /\ k + Len(run) - 1 <= Len(words)
    /\ SubSeq(words, k, k + Len(run) - 1) = run

\* the command deletes / recursively, pipes what curl downloads, from any
\* URL or none, into sh, or runs something under sudo
Dangerous(words) ==
    \E k \in 1..Len(words) :
       \/ At(words, k, <<"rm", "-rf", "/">>)
       \/ At(words, k, <<"curl", "|", "sh">>)
       \/ At(words, k, <<"curl", "url", "|", "sh">>)
       \/ (words[k] = "sudo" /\ k < Len(words))

\* ls with file arguments
Benign(words) ==
    /\ words[1] = "ls"
    /\ \A k \in 2..Len(words) : words[k] \in {"url", "/"}

\* C30: CheckCommandSafe answers unsafe, with a warning, for every dangerous
\* command, and safe, with no warning, for benign ones; safe is true exactly
\* when there is no warning
C30_CommandScan ==
    last.res = "command" =>
       /\ Dangerous(last.words) =>
             ~last.result.safe /\ last.result.warnings # <<>>
       /\ Benign(last.words) =>
             last.result.safe /\ last.result.warnings = <<>>
       /\ last.result.safe <=> last.result.warnings = <<>>

----------------------------------------------------------------------------
(* The revocation claim *)

\* C31: Revoke returns true exactly when the agent held a grant equal to the
\* capability, and then that capability is no longer granted to the agent, so
\* that a second Revoke of it returns false; when it returns false the store
\* is unchanged
C31_RevokeIdempotent ==
    [][\A a \in Ids, capability \in CapUniverse :
          Revoke(a, capability) =>
             /\ last'.res = "true" <=> InList(capability, CapsOf(caps, a))
             /\ last'.res = "false" => caps' = caps
             /\ last'.res = "true" =>
                   /\ Len(caps'[a]) = Len(caps[a]) - 1
                   /\ ~InList(capability, CapsOf(caps', a))]_vars

----------------------------------------------------------------------------
(* The agent resources claim *)

\* the grants Spawn makes for a configuration
ConfigGrants(config) ==
    IF config.capabilities # <<>>
    THEN [k \in 1..Len(config.capabilities) |-> Parse(config.capabilities[k])]
    ELSE <<Parse(FileRead), Parse(HttpRequest)>>

\* Terminate has acted on the agent
Terminated(evs, a) == Count(evs[a], "agent.terminated") > 0

\* C32: when Spawn returns, the agent holds the grants of its configuration
\* (those of the basic set when the configuration lists none) and has a
\* mailbox; every agent on which Terminate has not acted has grants and a
\* mailbox, and no step other than a Terminate that acts on it changes its
\* grants or removes its mailbox, the steps that make it completed or failed
\* included
C32_ResourcesUntilTerminate ==
    /\ [](\A a \in DOMAIN agents :
            ~Terminated(events, a) =>
               a \in DOMAIN queues /\ CapsOf(caps, a) # <<>>)
    /\ [][/\ \A id \in SpawnIds, config \in Configs :
               (Spawn(id, config) /\ last'.res = "ok") =>
                  /\ CapsOf(caps', id) = ConfigGrants(config)
                  /\ id \in DOMAIN queues'
          /\ \A a \in DOMAIN agents :
               ~Terminated(events', a) =>
                  /\ CapsOf(caps', a) = CapsOf(caps, a)
                  /\ a \in DOMAIN queues']_vars

\* Run returned for an agent that failed and was never terminated: it still
\* has the grant of its configuration and its mailbox
C32_Witness ==
    \E a \in DOMAIN agents :
       /\ last = Called(a, "returned")
       /\ agents[a].state = "failed"
       /\ ~Terminated(events, a)
       /\ CapsOf(caps, a) = <<Parse(ShellExecute)>>
       /\ a \in DOMAIN queues

----------------------------------------------------------------------------
(* The broadcast order claim *)

\* the callers subscribe to the wildcard first and to topic afterwards, and
\* nobody unsubscribes: the Subscribe calls were made in the order of
\* subs["*"] followed by subs["topic"]
NextWildcardFirst ==
    \/ \E a \in Ids : subs["topic"] = <<>> /\ BusSubscribe(a, "*")
    \/ \E a \in Ids : BusSubscribe(a, "topic")
    \/ \E data \in Payloads : BroadcastCall("a1", "topic", data)
    \/ \E outcome \in HandlerOutcomes : HandlerReturn(outcome)

SpecWildcardFirst == Init /\ [][NextWildcardFirst]_vars

\* the subscribers in the order of their Subscribe calls, when every
\* wildcard subscription was made before every subscription to topic
SubscribeOrder == subs["*"] \o subs["topic"]

\* C33: a Broadcast of topic during which no subscription changed has, when
\* it returns, invoked the handlers in the order of the Subscribe calls: the
\* wildcard subscribers, who subscribed first, before the subscribers of topic
C33_SubscribeOrder ==
    [][(last'.res = "event" /\ bcast.phase # "idle" /\ bcast.changes = 0) =>
          /\ Len(handled) = Len(SubscribeOrder)
          /\ \A k \in 1..Len(handled) :
                handled[k].agent_id = SubscribeOrder[k]]_vars

----------------------------------------------------------------------------
(* The pending request claim *)

\* requests of a1 to a2 that are answered, time out or are cancelled, while
\* messages are sent and a2 registers and unregisters
NextPending ==
    \/ \E a \in Recipients : BusRegister(a)
    \/ \E a \in Recipients : BusUnregister(a)
    \/ \E a \in Requesters, b \in Recipients : Send(a, b, "p")
    \/ \E a \in Requesters, b \in Recipients : Request(a, b, "p")
    \/ \E id \in 1..MaxMsgs : Deadline(id)
    \/ \E id \in 1..MaxMsgs : RequestReturn(id)
    \/ \E id \in 1..MaxMsgs : RequestCancel(id)
    \/ \E id \in 1..MaxMsgs : Respond(id, "q")
    \/ \E a \in Recipients : Receive(a)

SpecPending == Init /\ [][NextPending]_vars

\* C34: a pending entry appears only in the step of the Request that sends
\* the message of that id, and it waits then; it disappears only in the step
\* in which that Request returns or is cancelled, and every such step removes
\* it; Send, Respond and UnregisterAgent leave the set of entries as it was
C34_PendingWhileAwaiting ==
    [][/\ \A id \in 1..MaxMsgs :
             /\ (id \notin DOMAIN pending /\ id \in DOMAIN pending') =>
                   /\ \E a \in Requesters, b \in Recipients : Request(a, b, "p")
                   /\ id = Len(history) + 1
                   /\ history'[id].type = "request"
                   /\ pending'[id].state = "waiting"
                   /\ last'.res = "requested"
             /\ (id \in DOMAIN pending /\ id \notin DOMAIN pending') =>
                   /\ RequestReturn(id) \/ RequestCancel(id)
                   /\ last'.res \in {"response", "no_response", "cancelled"}
                   /\ last'.agent = history[id].sender_id
             /\ (RequestReturn(id) \/ RequestCancel(id)) =>
                   id \notin DOMAIN pending'
             /\ Respond(id, "q") => DOMAIN pending' = DOMAIN pending
       /\ \A a \in Requesters, b \in Recipients :
             /\ Send(a, b, "p") => pending' = pending
             /\ BusUnregister(b) => pending' = pending
       /\ last'.res \in {"sent", "responded", "unregistered"} =>
             DOMAIN pending' = DOMAIN pending]_vars

\* a Request was cancelled after its recipient, which had received it, was
\* unregistered; the entry of another Request still waits
C34_Witness ==
    \E id \in 1..Len(history) :
       /\ last = [agent |-> "a1", res |-> "cancelled", msg |-> <<>>]
       /\ history[id].type = "request"
       /\ id \notin DOMAIN pending
       /\ id \in Ran(received["a2"])
       /\ "a2" \notin DOMAIN queues
       /\ \E other \in DOMAIN pending : pending[other].state = "waiting"

----------------------------------------------------------------------------
(* The single loop claim *)

\* C35: a Run passes only on a pending agent, for which no loop exists, and
\* in the same step makes it running and starts the loop; every other Run
\* is rejected and changes nothing; so agent.started is emitted at most once
\* per agent, whatever Run calls are made while the loop runs
C35_SingleLoop ==
    /\ [](\A a \in Ids :
            /\ Count(events[a], "agent.started") <= 1
            /\ (a \in DOMAIN agents /\ agents[a].state = "pending") =>
                  pc[a] = "none")
    /\ [][\A a \in Ids :
            Run(a) =>
               IF a \in DOMAIN agents /\ agents[a].state = "pending"
               THEN /\ pc[a] = "none"
                    /\ pc'[a] = "loop"
                    /\ agents'[a].state = "running"
                    /\ last'.res = "started"
               ELSE /\ last'.res = "error"
                    /\ UNCHANGED state]_vars

\* a second Run was rejected while the loop of the first awaits the
\* inference service
C35_Witness ==
    \E a \in DOMAIN agents :
       /\ last = Called(a, "error")
       /\ agents[a].state = "running"
       /\ pc[a] = "await_llm"
       /\ Count(events[a], "agent.started") = 1

----------------------------------------------------------------------------
(* The tool registry called with parameters *)

\* the parameters callers pass to a file tool
Parameters == {[path |-> <<"/tmp/", "x">>], [path |-> <<"/etc/", "passwd">>]}

\* the tools executed with them: two registered ones and an unknown one
ParamTools == {"file.read", "file.write", "web.search"}

\* execute, from the call to the result; parameters reach the implementation
\* only
ExecuteWith(a, tool_name, parameters) ==
    /\ Len(impl_calls[a]) < MaxParamCalls
    /\ LET sync == ExecuteSync(tools, caps, a, tool_name)
       IN IF sync.invoke
          THEN /\ impl_calls' = [impl_calls EXCEPT ![a] =
                                    Append(@, [tool |-> tool_name,
                                               parameters |-> parameters])]
               /\ \E event \in ImplEvents(tool_name) :
                     last' = [agent |-> a, res |-> "result",
                              result |-> ExecuteResult(tool_name,
                                            Implementation(tool_name, event)),
                              parameters |-> parameters]
          ELSE /\ UNCHANGED impl_calls
               /\ last' = [agent |-> a, res |-> "result",
                           result |-> sync.result, parameters |-> parameters]
    /\ UNCHANGED <<agents, agent_tasks, pc, todo, events, caps, tools, queues, subs,
                   loopVars, busVars, pubVars, sandboxVars>>

NextParams ==
    \/ \E a \in Ids, c \in {FileRead, FileTmpRead} : GrantFromString(a, c)
    \/ \E a \in Ids : RevokeAll(a)
    \/ \E a \in SpawnIds, tool_name \in ParamTools, parameters \in Parameters :
          ExecuteWith(a, tool_name, parameters)

SpecParams == Init /\ [][NextParams]_vars

----------------------------------------------------------------------------
(* The isolation claim *)

\* the capabilities callers grant and revoke here
IsolationCaps == {Parse(c) : c \in {FileTmpRead, ShellExecute}}

\* a1 is spawned and terminated by the runtime while callers grant to and
\* revoke from both ids
NextIsolation ==
    \/ \E id \in SpawnIds, config \in Configs : Spawn(id, config)
    \/ \E a \in Ids : Terminate(a)
    \/ \E a \in Ids, capability \in IsolationCaps : Grant(a, capability)
    \/ \E a \in Ids, capability \in IsolationCaps : Revoke(a, capability)
    \/ \E a \in Ids : RevokeAll(a)

SpecIsolation == Init /\ [][NextIsolation]_vars

\* C37: a Grant, Revoke or RevokeAll for an agent, and a Spawn or Terminate
\* of it, leave the grant list of every other agent and the result of every
\* Check for every other agent as they were
C37_PerAgentIsolation ==
    [][\A a \in Ids : \A b \in Ids \ {a} :
          (/\ last'.agent = a
           /\ \/ \E capability \in IsolationCaps :
                    Grant(a, capability) \/ Revoke(a, capability)
              \/ RevokeAll(a)
              \/ \E config \in Configs : Spawn(a, config)
              \/ Terminate(a)) =>
             /\ CapsOf(caps', b) = CapsOf(caps, b)
             /\ \A q \in Requests :
                   Check(caps', b, q.resource, q.path, q.action)
                      = Check(caps, b, q.resource, q.path, q.action)]_vars

\* a1 was terminated, which revoked its grants, while a2 holds two grants
\* that allow some request
C37_Witness ==
    /\ last = Called("a1", "ok")
    /\ "a1" \in DOMAIN agents
    /\ agents["a1"].state = "terminated"
    /\ "a1" \notin DOMAIN caps
    /\ Len(CapsOf(caps, "a2")) = 2
    /\ ~NoneAllowed(caps, "a2")

----------------------------------------------------------------------------
(* The mailbox retention claim *)

\* messages of a1 to a2 while a2 registers, registers again, receives and
\* unregisters
NextMailbox ==
    \/ \E a \in Recipients : BusRegister(a)
    \/ \E a \in Recipients : BusRegisterAgain(a)
    \/ \E a \in Recipients : BusUnregister(a)
    \/ \E a \in Requesters, b \in Recipients, payload \in Payloads :
          Send(a, b, payload)
    \/ \E a \in Recipients : Receive(a)

SpecMailbox == Init /\ [][NextMailbox]_vars

\* C38: a message in the mailbox of a registered agent is still in it after
\* every step, unless the step is the Receive that returns it or the
\* UnregisterAgent of that agent
C38_MailboxKeeps ==
    [][\A b \in DOMAIN queues : \A k \in 1..Len(queues[b]) :
          \/ /\ b \in DOMAIN queues'
             /\ \E j \in 1..Len(queues'[b]) : queues'[b][j] = queues[b][k]
          \/ Receive(b) /\ last'.msg = <<queues[b][k]>>
          \/ BusUnregister(b)]_vars

----------------------------------------------------------------------------
(* The spawn failure claim *)

\* C39: a Spawn that fails leaves no agent, no mailbox and no grant under
\* the id of the agent it was creating
C39_SpawnAtomic ==
    [][\A id \in SpawnIds, config \in Configs :
          (Spawn(id, config) /\ last'.res = "error") =>
             /\ id \notin DOMAIN agents'
             /\ id \notin DOMAIN queues'
             /\ CapsOf(caps', id) = <<>>]_vars

----------------------------------------------------------------------------
(* The event order claim *)

\* the step appends an event of this type to the events of a
Emits(a, type) == events'[a] = Append(events[a], type)

\* C40: agent.started is emitted at most once per agent and agent.completed
\* only after it and at most once; tool.executed is emitted only after
\* agent.started and before agent.completed; and when agent.completed is
\* emitted the agent is completed, failed or terminated
C40_RunEvents ==
    /\ [](\A a \in Ids :
            /\ Count(events[a], "agent.started") <= 1
            /\ Count(events[a], "agent.completed")
                  <= Count(events[a], "agent.started"))
    /\ [][\A a \in DOMAIN agents :
            /\ Emits(a, "tool.executed") =>
                  /\ Count(events[a], "agent.started") = 1
                  /\ Count(events[a], "agent.completed") = 0
            /\ Emits(a, "agent.completed") => agents'[a].state \in Terminal]_vars

----------------------------------------------------------------------------

TypeOK ==
    /\ DOMAIN agents \subseteq Ids
    /\ \A a \in DOMAIN agents :
          agents[a].state \in {"pending", "running", "paused"} \cup Terminal

====
